---- MODULE Spec2Model ----
(***************************************************************************)
(* BitFlow payment-tag contract (contracts/bitflow.clar) as a state        *)
(* machine.  One action per public function call; a call that returns an   *)
(* (err ...) response commits nothing, as Clarity rolls back a failing     *)
(* public call.  The contract's data-vars and maps are the variables.      *)
(***************************************************************************)
EXTENDS Integers, Sequences, FiniteSets, TLC

VARIABLES
  payment_tags,        \* define-map payment-tags: id -> tag record
  creator_index,       \* define-map creator-index: principal -> [tag_ids, count]
  recipient_index,     \* define-map recipient-index: principal -> [tag_ids, count]
  contract_stats,      \* define-map contract-stats: key -> value
  tag_counter,         \* define-data-var tag-counter
  contract_paused,     \* define-data-var contract-paused
  stacks_block_height, \* the chain's block height
  last,                \* history: the call made by the last step and its outcome
  sbtc_ledger,         \* history: the successful sBTC transfers, in order
  issued,              \* history: the ids returned by successful creates, in order
  base,                \* history: tag-counter at the start of the observed run
  retry,               \* walletConnectUtils.ts: one retryWithBackoff call
  wallet               \* walletConnect.ts: the session_request handlers

vars == <<payment_tags, creator_index, recipient_index, contract_stats,
          tag_counter, contract_paused, stacks_block_height, last,
          sbtc_ledger, issued, base, retry, wallet>>

----------------------------------------------------------------------------
(* Constants of the contract *)

ERR_TAG_EXISTS == 100
ERR_NOT_PENDING == 101
ERR_INSUFFICIENT_FUNDS == 102
ERR_NOT_FOUND == 103
ERR_UNAUTHORIZED == 104
ERR_EXPIRED == 105
ERR_INVALID_AMOUNT == 106
ERR_EMPTY_MEMO == 107
ERR_MAX_EXPIRATION_EXCEEDED == 108
ERR_INVALID_RECIPIENT == 109
ERR_SELF_PAYMENT == 110

STATE_PENDING == "pending"
STATE_PAID == "paid"
STATE_EXPIRED == "expired"
STATE_CANCELED == "canceled"

CONTRACT_DEPLOYER == "deployer"

MAX_EXPIRATION_BLOCKS == 4320
MAX_TAGS_PER_USER == 100
MIN_PAYMENT_AMOUNT == 1000

\* the length bound of (list 100 uint) enforced by as-max-len? ... u100
IndexListMax == 100

----------------------------------------------------------------------------
(* Bounds of the model *)

StartHeight == 100      \* block height at which the observed run starts
MaxBlocks == 1          \* blocks mined during the observed run
MaxNewTags == 2         \* successful creates during the observed run
PrefillTags == 99       \* tags created before the observed run (SpecIndex)
MaxBatchLen == 3        \* longest id list given to get-multiple-tags

Principals == {CONTRACT_DEPLOYER, "alice", "bob"}

\* (optional T): none is <<>>, (some v) is <<v>>
None == <<>>
Some(v) == <<v>>
IsSome(o) == Len(o) = 1
Unwrap(o) == o[1]

TerminalStates == {STATE_PAID, STATE_CANCELED, STATE_EXPIRED}

\* (response ok err)
Ok(v) == [ok |-> TRUE, err |-> 0, val |-> v]
Err(e) == [ok |-> FALSE, err |-> e, val |-> 0]

\* (ok b) with a boolean b, the response of toggle-contract-pause
OkBool(b) == [ok |-> TRUE, err |-> 0, flag |-> b]

----------------------------------------------------------------------------
(* The contract's storage as one value, and the outcome of a call *)

Store ==
  [payment_tags |-> payment_tags, creator_index |-> creator_index,
   recipient_index |-> recipient_index, contract_stats |-> contract_stats,
   tag_counter |-> tag_counter, contract_paused |-> contract_paused]

\* storage right after deployment: empty maps, tag-counter u0, not paused
DeployedStore ==
  [payment_tags |-> <<>>, creator_index |-> <<>>, recipient_index |-> <<>>,
   contract_stats |-> <<>>, tag_counter |-> 0, contract_paused |-> FALSE]

\* (map-set m k v)
MapSet(m, k, v) == [x \in DOMAIN m \cup {k} |-> IF x = k THEN v ELSE m[x]]

\* a call that returns (err e): nothing is committed, nothing is printed
Abort(s, e, calls) ==
  [response |-> Err(e), store |-> s, printed |-> <<>>, calls |-> calls]

Commit(s, v, printed, calls) ==
  [response |-> Ok(v), store |-> s, printed |-> printed, calls |-> calls]

\* a call that returns (ok b) with a boolean b
CommitBool(s, b, printed, calls) ==
  [response |-> OkBool(b), store |-> s, printed |-> printed, calls |-> calls]

----------------------------------------------------------------------------
(* Internal helper functions *)

\* (default-to {tag-ids: (list), count: u0} (map-get? index {key}))
IndexEntry(index, who) ==
  IF who \in DOMAIN index THEN index[who] ELSE [tag_ids |-> <<>>, count |-> 0]

\* faulty variant: the appended list is accepted at any length
as_max_len_unbounded(list, n) == Some(list)

\* (as-max-len? (append current-list tag-id) u100)
as_max_len(list, n) == IF Len(list) <= n THEN Some(list) ELSE None

\* faulty variant: the count is incremented also when the appended list does
\* not fit
add_to_creator_index_counts_always(s, creator, tag_id) ==
  LET current_data == IndexEntry(s.creator_index, creator)
      current_list == current_data.tag_ids
      current_count == current_data.count
      appended == as_max_len(Append(current_list, tag_id), IndexListMax)
  IN  IF IsSome(appended)
      THEN [fits |-> TRUE,
            store |-> [s EXCEPT !.creator_index =
                         MapSet(@, creator, [tag_ids |-> Unwrap(appended),
                                             count |-> current_count + 1])]]
      ELSE [fits |-> FALSE,
            store |-> [s EXCEPT !.creator_index =
                         MapSet(@, creator, [tag_ids |-> current_list,
                                             count |-> current_count + 1])]]

\* add-to-creator-index: [fits, store]; the index entry is written only when
\* the appended list fits
add_to_creator_index(s, creator, tag_id) ==
  LET current_data == IndexEntry(s.creator_index, creator)
      current_list == current_data.tag_ids
      current_count == current_data.count
      appended == as_max_len(Append(current_list, tag_id), IndexListMax)
  IN  IF IsSome(appended)
      THEN [fits |-> TRUE,
            store |-> [s EXCEPT !.creator_index =
                         MapSet(@, creator, [tag_ids |-> Unwrap(appended),
                                             count |-> current_count + 1])]]
      ELSE [fits |-> FALSE, store |-> s]

\* add-to-recipient-index
add_to_recipient_index(s, recipient, tag_id) ==
  LET current_data == IndexEntry(s.recipient_index, recipient)
      current_list == current_data.tag_ids
      current_count == current_data.count
      appended == as_max_len(Append(current_list, tag_id), IndexListMax)
  IN  IF IsSome(appended)
      THEN [fits |-> TRUE,
            store |-> [s EXCEPT !.recipient_index =
                         MapSet(@, recipient, [tag_ids |-> Unwrap(appended),
                                               count |-> current_count + 1])]]
      ELSE [fits |-> FALSE, store |-> s]

\* faulty variant: a tag counts as expired only after its expiry block
is_tag_expired_strict(height, expires_at) == height > expires_at

\* is-tag-expired
is_tag_expired(height, expires_at) == height >= expires_at

\* (default-to u0 (get value (map-get? contract-stats {key})))
StatValue(stats, stat_key) ==
  IF stat_key \in DOMAIN stats THEN stats[stat_key] ELSE 0

\* faulty variant: the current value is not read, the counter is set to one
increment_stat_from_default(s, stat_key) ==
  [s EXCEPT !.contract_stats = MapSet(@, stat_key, 1)]

\* increment-stat
increment_stat(s, stat_key) ==
  [s EXCEPT !.contract_stats =
     MapSet(@, stat_key, StatValue(s.contract_stats, stat_key) + 1)]

----------------------------------------------------------------------------
(* create-payment-tag *)

\* faulty variant: the id is the counter itself, not the counter plus one
new_tag_id_stale(s) == s.tag_counter

\* (new-tag-id (+ (var-get tag-counter) u1))
new_tag_id(s) == s.tag_counter + 1

\* faulty variant: the amount is checked before the pause flag
create_checks_amount_first(s, tx_sender, recipient, amount, expires_in_blocks, memo) ==
  IF ~(amount >= MIN_PAYMENT_AMOUNT) THEN ERR_INVALID_AMOUNT
  ELSE IF ~(~s.contract_paused) THEN ERR_UNAUTHORIZED
  ELSE IF ~(expires_in_blocks <= MAX_EXPIRATION_BLOCKS)
       THEN ERR_MAX_EXPIRATION_EXCEEDED
  ELSE IF ~(expires_in_blocks > 0) THEN ERR_INVALID_AMOUNT
  ELSE IF ~(tx_sender # recipient) THEN ERR_SELF_PAYMENT
  ELSE IF IsSome(memo) /\ ~(Len(Unwrap(memo)) > 0) THEN ERR_EMPTY_MEMO
  ELSE 0

\* faulty variant: an empty memo is let through
create_checks_no_memo(s, tx_sender, recipient, amount, expires_in_blocks, memo) ==
  IF ~(~s.contract_paused) THEN ERR_UNAUTHORIZED
  ELSE IF ~(amount >= MIN_PAYMENT_AMOUNT) THEN ERR_INVALID_AMOUNT
  ELSE IF ~(expires_in_blocks <= MAX_EXPIRATION_BLOCKS)
       THEN ERR_MAX_EXPIRATION_EXCEEDED
  ELSE IF ~(expires_in_blocks > 0) THEN ERR_INVALID_AMOUNT
  ELSE IF ~(tx_sender # recipient) THEN ERR_SELF_PAYMENT
  ELSE 0

\* faulty variant: the maximum duration itself is refused
create_checks_max_exclusive(s, tx_sender, recipient, amount, expires_in_blocks, memo) ==
  IF ~(~s.contract_paused) THEN ERR_UNAUTHORIZED
  ELSE IF ~(amount >= MIN_PAYMENT_AMOUNT) THEN ERR_INVALID_AMOUNT
  ELSE IF ~(expires_in_blocks < MAX_EXPIRATION_BLOCKS)
       THEN ERR_MAX_EXPIRATION_EXCEEDED
  ELSE IF ~(expires_in_blocks > 0) THEN ERR_INVALID_AMOUNT
  ELSE IF ~(tx_sender # recipient) THEN ERR_SELF_PAYMENT
  ELSE IF IsSome(memo) /\ ~(Len(Unwrap(memo)) > 0) THEN ERR_EMPTY_MEMO
  ELSE 0

\* faulty variant: a duration of zero blocks is let through
create_checks_zero_duration(s, tx_sender, recipient, amount, expires_in_blocks, memo) ==
  IF ~(~s.contract_paused) THEN ERR_UNAUTHORIZED
  ELSE IF ~(amount >= MIN_PAYMENT_AMOUNT) THEN ERR_INVALID_AMOUNT
  ELSE IF ~(expires_in_blocks <= MAX_EXPIRATION_BLOCKS)
       THEN ERR_MAX_EXPIRATION_EXCEEDED
  ELSE IF ~(tx_sender # recipient) THEN ERR_SELF_PAYMENT
  ELSE IF IsSome(memo) /\ ~(Len(Unwrap(memo)) > 0) THEN ERR_EMPTY_MEMO
  ELSE 0

\* the asserts! of create-payment-tag in order: 0 when all pass, else the
\* error of the first one that fails
create_checks(s, tx_sender, recipient, amount, expires_in_blocks, memo) ==
  IF ~(~s.contract_paused) THEN ERR_UNAUTHORIZED
  ELSE IF ~(amount >= MIN_PAYMENT_AMOUNT) THEN ERR_INVALID_AMOUNT
  ELSE IF ~(expires_in_blocks <= MAX_EXPIRATION_BLOCKS)
       THEN ERR_MAX_EXPIRATION_EXCEEDED
  ELSE IF ~(expires_in_blocks > 0) THEN ERR_INVALID_AMOUNT
  ELSE IF ~(tx_sender # recipient) THEN ERR_SELF_PAYMENT
  ELSE IF IsSome(memo) /\ ~(Len(Unwrap(memo)) > 0) THEN ERR_EMPTY_MEMO
  ELSE 0

\* faulty variant: the tag expires at the duration, not at height + duration
create_writes_absolute_expiry(s, tx_sender, height, recipient, amount, expires_in_blocks, memo) ==
  LET id == new_tag_id(s)
      s1 == [s EXCEPT !.payment_tags =
               MapSet(@, id,
                 [creator |-> tx_sender, recipient |-> recipient,
                  amount |-> amount, created_at |-> height,
                  expires_at |-> expires_in_blocks, memo |-> memo,
                  state |-> STATE_PENDING, payment_tx |-> None,
                  payment_block |-> None])]
      s2 == [s1 EXCEPT !.tag_counter = id]
      s3 == add_to_creator_index(s2, tx_sender, id).store
      s4 == add_to_recipient_index(s3, recipient, id).store
  IN  increment_stat(s4, "tags-created")

\* the writes of create-payment-tag after its checks: the tag record, the
\* counter, both indexes (their boolean results are dropped) and the statistic
create_writes(s, tx_sender, height, recipient, amount, expires_in_blocks, memo) ==
  LET id == new_tag_id(s)
      expiration_block == height + expires_in_blocks
      s1 == [s EXCEPT !.payment_tags =
               MapSet(@, id,
                 [creator |-> tx_sender, recipient |-> recipient,
                  amount |-> amount, created_at |-> height,
                  expires_at |-> expiration_block, memo |-> memo,
                  state |-> STATE_PENDING, payment_tx |-> None,
                  payment_block |-> None])]
      s2 == [s1 EXCEPT !.tag_counter = id]
      s3 == add_to_creator_index(s2, tx_sender, id).store
      s4 == add_to_recipient_index(s3, recipient, id).store
  IN  increment_stat(s4, "tags-created")

create_payment_tag(s, tx_sender, height, recipient, amount, expires_in_blocks, memo) ==
  LET id == new_tag_id(s)
      expiration_block == height + expires_in_blocks
      e == create_checks(s, tx_sender, recipient, amount, expires_in_blocks, memo)
  IN  IF e # 0 THEN Abort(s, e, <<>>)
      ELSE Commit(create_writes(s, tx_sender, height, recipient, amount,
                                expires_in_blocks, memo),
                  id,
                  <<[event |-> "payment-tag-created", tag_id |-> id,
                     creator |-> tx_sender, recipient |-> recipient,
                     amount |-> amount, expires_at |-> expiration_block,
                     memo |-> memo]>>,
                  <<>>)

----------------------------------------------------------------------------
(* fulfill-payment-tag *)

\* faulty variant: the state of the tag is not checked
fulfill_checks_any_state(s, height, tag_id) ==
  IF tag_id \notin DOMAIN s.payment_tags THEN ERR_NOT_FOUND
  ELSE LET tag_data == s.payment_tags[tag_id] IN
    IF ~(~s.contract_paused) THEN ERR_UNAUTHORIZED
    ELSE IF ~(tag_id > 0) THEN ERR_INVALID_AMOUNT
    ELSE IF ~(tag_id <= s.tag_counter) THEN ERR_NOT_FOUND
    ELSE IF ~(height < tag_data.expires_at) THEN ERR_EXPIRED
    ELSE 0

\* the unwrap! of the let binding and then the asserts! of fulfill-payment-tag
\* in order: 0 when all pass, else the error of the first one that fails
\* faulty variant: the expiry height itself still accepts a payment
fulfill_checks_expiry_inclusive(s, height, tag_id) ==
  IF tag_id \notin DOMAIN s.payment_tags THEN ERR_NOT_FOUND
  ELSE LET tag_data == s.payment_tags[tag_id] IN
    IF ~(~s.contract_paused) THEN ERR_UNAUTHORIZED
    ELSE IF ~(tag_id > 0) THEN ERR_INVALID_AMOUNT
    ELSE IF ~(tag_id <= s.tag_counter) THEN ERR_NOT_FOUND
    ELSE IF ~(tag_data.state = STATE_PENDING) THEN ERR_NOT_PENDING
    ELSE IF ~(height <= tag_data.expires_at) THEN ERR_EXPIRED
    ELSE 0

fulfill_checks(s, height, tag_id) ==
  IF tag_id \notin DOMAIN s.payment_tags THEN ERR_NOT_FOUND
  ELSE LET tag_data == s.payment_tags[tag_id] IN
    IF ~(~s.contract_paused) THEN ERR_UNAUTHORIZED
    ELSE IF ~(tag_id > 0) THEN ERR_INVALID_AMOUNT
    ELSE IF ~(tag_id <= s.tag_counter) THEN ERR_NOT_FOUND
    ELSE IF ~(tag_data.state = STATE_PENDING) THEN ERR_NOT_PENDING
    ELSE IF ~(height < tag_data.expires_at) THEN ERR_EXPIRED
    ELSE 0

\* faulty variant: the transfer goes to the tag's creator
fulfill_transfer_to_creator(tag_data, tx_sender) ==
  [amount |-> tag_data.amount, sender |-> tx_sender,
   recipient |-> tag_data.creator]

\* the arguments of (contract-call? SBTC-CONTRACT transfer amount tx-sender
\* recipient none)
fulfill_transfer(tag_data, tx_sender) ==
  [amount |-> tag_data.amount, sender |-> tx_sender,
   recipient |-> tag_data.recipient]

\* faulty variant: the payment block recorded is the tag's expiry height
fulfill_writes_expiry_block(s, height, tag_id) ==
  LET tag_data == s.payment_tags[tag_id]
      s1 == [s EXCEPT !.payment_tags =
               MapSet(@, tag_id, [tag_data EXCEPT !.state = STATE_PAID,
                                    !.payment_block = Some(tag_data.expires_at)])]
  IN  increment_stat(s1, "tags-fulfilled")

\* faulty variant: the payment also rewrites the expiry of the tag
fulfill_writes_rewrites_expiry(s, height, tag_id) ==
  LET tag_data == s.payment_tags[tag_id]
      s1 == [s EXCEPT !.payment_tags =
               MapSet(@, tag_id, [tag_data EXCEPT !.state = STATE_PAID,
                                    !.payment_block = Some(height),
                                    !.expires_at = height])]
  IN  increment_stat(s1, "tags-fulfilled")

\* the writes of fulfill-payment-tag after the transfer
fulfill_writes(s, height, tag_id) ==
  LET tag_data == s.payment_tags[tag_id]
      s1 == [s EXCEPT !.payment_tags =
               MapSet(@, tag_id, [tag_data EXCEPT !.state = STATE_PAID,
                                    !.payment_block = Some(height)])]
  IN  increment_stat(s1, "tags-fulfilled")

\* faulty variant: the transfer's response is dropped instead of try!-ed
fulfill_payment_tag_no_try(s, tx_sender, height, tag_id, transfer_response) ==
  LET e == fulfill_checks(s, height, tag_id) IN
  IF e # 0 THEN Abort(s, e, <<>>)
  ELSE LET tag_data == s.payment_tags[tag_id]
           call == [args |-> fulfill_transfer(tag_data, tx_sender),
                    response |-> transfer_response]
       IN  Commit(fulfill_writes(s, height, tag_id), tag_id,
                  <<[event |-> "payment-tag-fulfilled", tag_id |-> tag_id,
                     payer |-> tx_sender,
                     recipient |-> tag_data.recipient,
                     amount |-> tag_data.amount,
                     payment_block |-> height]>>,
                  <<call>>)

\* faulty variant: the transfer is made before the asserts! on the tag
fulfill_payment_tag_transfer_first(s, tx_sender, height, tag_id, transfer_response) ==
  IF tag_id \notin DOMAIN s.payment_tags THEN Abort(s, ERR_NOT_FOUND, <<>>)
  ELSE LET tag_data == s.payment_tags[tag_id]
           call == [args |-> fulfill_transfer(tag_data, tx_sender),
                    response |-> transfer_response]
           e == fulfill_checks(s, height, tag_id)
       IN  IF ~transfer_response.ok
           THEN Abort(s, transfer_response.err, <<call>>)
           ELSE IF e # 0 THEN Abort(s, e, <<call>>)
           ELSE Commit(fulfill_writes(s, height, tag_id), tag_id,
                       <<[event |-> "payment-tag-fulfilled", tag_id |-> tag_id,
                          payer |-> tx_sender,
                          recipient |-> tag_data.recipient,
                          amount |-> tag_data.amount,
                          payment_block |-> height]>>,
                       <<call>>)

\* faulty variant: the tag is written before the transfer and the write is
\* kept when the transfer fails
fulfill_payment_tag_keeps_writes(s, tx_sender, height, tag_id, transfer_response) ==
  LET e == fulfill_checks(s, height, tag_id) IN
  IF e # 0 THEN Abort(s, e, <<>>)
  ELSE LET tag_data == s.payment_tags[tag_id]
           call == [args |-> fulfill_transfer(tag_data, tx_sender),
                    response |-> transfer_response]
       IN  IF ~transfer_response.ok
           THEN Abort(fulfill_writes(s, height, tag_id),
                      transfer_response.err, <<call>>)
           ELSE Commit(fulfill_writes(s, height, tag_id), tag_id,
                       <<[event |-> "payment-tag-fulfilled", tag_id |-> tag_id,
                          payer |-> tx_sender,
                          recipient |-> tag_data.recipient,
                          amount |-> tag_data.amount,
                          payment_block |-> height]>>,
                       <<call>>)

\* transfer_response is what the sBTC contract answers if it is called
fulfill_payment_tag(s, tx_sender, height, tag_id, transfer_response) ==
  LET e == fulfill_checks(s, height, tag_id) IN
  IF e # 0 THEN Abort(s, e, <<>>)
  ELSE LET tag_data == s.payment_tags[tag_id]
           call == [args |-> fulfill_transfer(tag_data, tx_sender),
                    response |-> transfer_response]
       IN  IF ~transfer_response.ok
           THEN Abort(s, transfer_response.err, <<call>>)
           ELSE Commit(fulfill_writes(s, height, tag_id), tag_id,
                       <<[event |-> "payment-tag-fulfilled", tag_id |-> tag_id,
                          payer |-> tx_sender,
                          recipient |-> tag_data.recipient,
                          amount |-> tag_data.amount,
                          payment_block |-> height]>>,
                       <<call>>)

----------------------------------------------------------------------------
(* cancel-payment-tag *)

\* faulty variant: the state of the tag is not checked
cancel_checks_any_state(s, tx_sender, tag_id) ==
  IF tag_id \notin DOMAIN s.payment_tags THEN ERR_NOT_FOUND
  ELSE LET tag_data == s.payment_tags[tag_id] IN
    IF ~(tag_id > 0) THEN ERR_INVALID_AMOUNT
    ELSE IF ~(tag_id <= s.tag_counter) THEN ERR_NOT_FOUND
    ELSE IF ~(tx_sender = tag_data.creator) THEN ERR_UNAUTHORIZED
    ELSE 0

\* faulty variant: cancel is refused while the contract is paused
cancel_checks_pause_gated(s, tx_sender, tag_id) ==
  IF tag_id \notin DOMAIN s.payment_tags THEN ERR_NOT_FOUND
  ELSE LET tag_data == s.payment_tags[tag_id] IN
    IF ~(~s.contract_paused) THEN ERR_UNAUTHORIZED
    ELSE IF ~(tag_id > 0) THEN ERR_INVALID_AMOUNT
    ELSE IF ~(tag_id <= s.tag_counter) THEN ERR_NOT_FOUND
    ELSE IF ~(tx_sender = tag_data.creator) THEN ERR_UNAUTHORIZED
    ELSE IF ~(tag_data.state = STATE_PENDING) THEN ERR_NOT_PENDING
    ELSE 0

\* faulty variant: the asserts! on the id come before the tag is fetched
cancel_checks_id_first(s, tx_sender, tag_id) ==
  IF ~(tag_id > 0) THEN ERR_INVALID_AMOUNT
  ELSE IF ~(tag_id <= s.tag_counter) THEN ERR_NOT_FOUND
  ELSE IF tag_id \notin DOMAIN s.payment_tags THEN ERR_NOT_FOUND
  ELSE LET tag_data == s.payment_tags[tag_id] IN
    IF ~(tx_sender = tag_data.creator) THEN ERR_UNAUTHORIZED
    ELSE IF ~(tag_data.state = STATE_PENDING) THEN ERR_NOT_PENDING
    ELSE 0

\* the unwrap! of the let binding and then the asserts! of cancel-payment-tag
cancel_checks(s, tx_sender, tag_id) ==
  IF tag_id \notin DOMAIN s.payment_tags THEN ERR_NOT_FOUND
  ELSE LET tag_data == s.payment_tags[tag_id] IN
    IF ~(tag_id > 0) THEN ERR_INVALID_AMOUNT
    ELSE IF ~(tag_id <= s.tag_counter) THEN ERR_NOT_FOUND
    ELSE IF ~(tx_sender = tag_data.creator) THEN ERR_UNAUTHORIZED
    ELSE IF ~(tag_data.state = STATE_PENDING) THEN ERR_NOT_PENDING
    ELSE 0

\* faulty variant: the cancellation is not printed
cancel_payment_tag_silent(s, tx_sender, tag_id) ==
  LET e == cancel_checks(s, tx_sender, tag_id) IN
  IF e # 0 THEN Abort(s, e, <<>>)
  ELSE LET tag_data == s.payment_tags[tag_id]
           s1 == [s EXCEPT !.payment_tags =
                    MapSet(@, tag_id, [tag_data EXCEPT !.state = STATE_CANCELED])]
       IN  Commit(increment_stat(s1, "tags-canceled"), tag_id, <<>>, <<>>)

cancel_payment_tag(s, tx_sender, tag_id) ==
  LET e == cancel_checks(s, tx_sender, tag_id) IN
  IF e # 0 THEN Abort(s, e, <<>>)
  ELSE LET tag_data == s.payment_tags[tag_id]
           s1 == [s EXCEPT !.payment_tags =
                    MapSet(@, tag_id, [tag_data EXCEPT !.state = STATE_CANCELED])]
       IN  Commit(increment_stat(s1, "tags-canceled"), tag_id,
                  <<[event |-> "payment-tag-canceled", tag_id |-> tag_id,
                     creator |-> tx_sender]>>,
                  <<>>)

----------------------------------------------------------------------------
(* expire-payment-tag *)

\* faulty variant: the expiry is checked before the state of the tag
expire_checks_time_first(s, height, tag_id) ==
  IF tag_id \notin DOMAIN s.payment_tags THEN ERR_NOT_FOUND
  ELSE LET tag_data == s.payment_tags[tag_id] IN
    IF ~(tag_id > 0) THEN ERR_INVALID_AMOUNT
    ELSE IF ~(tag_id <= s.tag_counter) THEN ERR_NOT_FOUND
    ELSE IF ~is_tag_expired(height, tag_data.expires_at) THEN ERR_EXPIRED
    ELSE IF ~(tag_data.state = STATE_PENDING) THEN ERR_NOT_PENDING
    ELSE 0

\* faulty variant: expire is refused while the contract is paused
expire_checks_pause_gated(s, height, tag_id) ==
  IF tag_id \notin DOMAIN s.payment_tags THEN ERR_NOT_FOUND
  ELSE LET tag_data == s.payment_tags[tag_id] IN
    IF ~(~s.contract_paused) THEN ERR_UNAUTHORIZED
    ELSE IF ~(tag_id > 0) THEN ERR_INVALID_AMOUNT
    ELSE IF ~(tag_id <= s.tag_counter) THEN ERR_NOT_FOUND
    ELSE IF ~(tag_data.state = STATE_PENDING) THEN ERR_NOT_PENDING
    ELSE IF ~is_tag_expired(height, tag_data.expires_at) THEN ERR_EXPIRED
    ELSE 0

\* faulty variant: a pending tag can be expired at any height
expire_checks_any_time(s, height, tag_id) ==
  IF tag_id \notin DOMAIN s.payment_tags THEN ERR_NOT_FOUND
  ELSE LET tag_data == s.payment_tags[tag_id] IN
    IF ~(tag_id > 0) THEN ERR_INVALID_AMOUNT
    ELSE IF ~(tag_id <= s.tag_counter) THEN ERR_NOT_FOUND
    ELSE IF ~(tag_data.state = STATE_PENDING) THEN ERR_NOT_PENDING
    ELSE 0

\* the unwrap! of the let binding and then the asserts! of expire-payment-tag
expire_checks(s, height, tag_id) ==
  IF tag_id \notin DOMAIN s.payment_tags THEN ERR_NOT_FOUND
  ELSE LET tag_data == s.payment_tags[tag_id] IN
    IF ~(tag_id > 0) THEN ERR_INVALID_AMOUNT
    ELSE IF ~(tag_id <= s.tag_counter) THEN ERR_NOT_FOUND
    ELSE IF ~(tag_data.state = STATE_PENDING) THEN ERR_NOT_PENDING
    ELSE IF ~is_tag_expired(height, tag_data.expires_at) THEN ERR_EXPIRED
    ELSE 0

\* faulty variant: the expiry is counted as a cancellation
expire_payment_tag_wrong_stat(s, tx_sender, height, tag_id) ==
  LET e == expire_checks(s, height, tag_id) IN
  IF e # 0 THEN Abort(s, e, <<>>)
  ELSE LET tag_data == s.payment_tags[tag_id]
           s1 == [s EXCEPT !.payment_tags =
                    MapSet(@, tag_id, [tag_data EXCEPT !.state = STATE_EXPIRED])]
       IN  Commit(increment_stat(s1, "tags-canceled"), tag_id,
                  <<[event |-> "payment-tag-expired", tag_id |-> tag_id,
                     expired_by |-> tx_sender]>>,
                  <<>>)

expire_payment_tag(s, tx_sender, height, tag_id) ==
  LET e == expire_checks(s, height, tag_id) IN
  IF e # 0 THEN Abort(s, e, <<>>)
  ELSE LET tag_data == s.payment_tags[tag_id]
           s1 == [s EXCEPT !.payment_tags =
                    MapSet(@, tag_id, [tag_data EXCEPT !.state = STATE_EXPIRED])]
       IN  Commit(increment_stat(s1, "tags-expired"), tag_id,
                  <<[event |-> "payment-tag-expired", tag_id |-> tag_id,
                     expired_by |-> tx_sender]>>,
                  <<>>)

----------------------------------------------------------------------------
(* toggle-contract-pause *)

\* faulty variant: the caller is not checked
toggle_contract_pause_any_caller(s, tx_sender) ==
  LET s1 == [s EXCEPT !.contract_paused = ~s.contract_paused]
  IN  CommitBool(s1, s1.contract_paused,
                 <<[event |-> "contract-pause-toggled",
                    paused |-> s1.contract_paused]>>,
                 <<>>)

toggle_contract_pause(s, tx_sender) ==
  IF ~(tx_sender = CONTRACT_DEPLOYER) THEN Abort(s, ERR_UNAUTHORIZED, <<>>)
  ELSE LET s1 == [s EXCEPT !.contract_paused = ~s.contract_paused]
       IN  CommitBool(s1, s1.contract_paused,
                      <<[event |-> "contract-pause-toggled",
                         paused |-> s1.contract_paused]>>,
                      <<>>)

----------------------------------------------------------------------------
(* Read-only functions *)

get_tag_counter(s) == s.tag_counter

get_payment_tag(s, tag_id) ==
  IF tag_id \in DOMAIN s.payment_tags THEN Ok(s.payment_tags[tag_id])
  ELSE Err(ERR_NOT_FOUND)

\* faulty variant: a party without an entry is answered with not-found
get_creator_tags_strict(s, creator) ==
  IF creator \in DOMAIN s.creator_index THEN Ok(s.creator_index[creator].tag_ids)
  ELSE Err(ERR_NOT_FOUND)

get_creator_tags(s, creator) ==
  IF creator \in DOMAIN s.creator_index THEN Ok(s.creator_index[creator].tag_ids)
  ELSE Ok(<<>>)

get_recipient_tags(s, recipient) ==
  IF recipient \in DOMAIN s.recipient_index
  THEN Ok(s.recipient_index[recipient].tag_ids)
  ELSE Ok(<<>>)

\* faulty variant: the state of the tag is not looked at
can_expire_tag_any_state(s, height, tag_id) ==
  IF tag_id \in DOMAIN s.payment_tags
  THEN LET tag_data == s.payment_tags[tag_id] IN
       IF is_tag_expired(height, tag_data.expires_at)
       THEN Ok(TRUE) ELSE Ok(FALSE)
  ELSE Err(ERR_NOT_FOUND)

can_expire_tag(s, height, tag_id) ==
  IF tag_id \in DOMAIN s.payment_tags
  THEN LET tag_data == s.payment_tags[tag_id] IN
       IF tag_data.state = STATE_PENDING
          /\ is_tag_expired(height, tag_data.expires_at)
       THEN Ok(TRUE) ELSE Ok(FALSE)
  ELSE Err(ERR_NOT_FOUND)

\* faulty variant: ids without a tag are left out of the result
get_multiple_tags_found_only(s, tag_ids) ==
  Ok(SelectSeq([i \in 1..Len(tag_ids) |->
                  IF tag_ids[i] \in DOMAIN s.payment_tags
                  THEN Some(s.payment_tags[tag_ids[i]]) ELSE None],
               IsSome))

\* get-tag-safe: (map-get? payment-tags { id: tag-id })
get_tag_safe(s, tag_id) ==
  IF tag_id \in DOMAIN s.payment_tags THEN Some(s.payment_tags[tag_id])
  ELSE None

\* get-multiple-tags: (ok (map get-tag-safe tag-ids))
get_multiple_tags(s, tag_ids) ==
  Ok([i \in 1..Len(tag_ids) |-> get_tag_safe(s, tag_ids[i])])

get_contract_stats(s, stat_key) ==
  IF stat_key \in DOMAIN s.contract_stats THEN Ok(s.contract_stats[stat_key])
  ELSE Ok(0)

is_contract_paused(s) == s.contract_paused

get_contract_info(s) ==
  Ok([name |-> "BitFlow - Smart Bitcoin Payment Request Protocol",
      version |-> "1.0.0", deployer |-> CONTRACT_DEPLOYER,
      total_tags |-> s.tag_counter, paused |-> s.contract_paused])

----------------------------------------------------------------------------
(* The state machine: one step per transaction, or one block mined *)

\* the wallet side is not running while the contract is observed
NoRetry == [pc |-> "idle"]

NoWallet == [pc |-> "idle"]

NoCall ==
  [op |-> "none", tx_sender |-> "", args |-> <<>>, height |-> 0,
   response |-> Ok(0), printed |-> <<>>, calls |-> <<>>]

\* the ids the calls of the observed run are made on: 0, the ids assigned so
\* far and the next free id
CallIds == 0..(tag_counter + 1)

\* what the sBTC contract may answer to transfer
TransferResponses == {Ok(TRUE), Err(1)}

Memos == {None, Some(""), Some("m")}

\* the observed run has started, and a failed call has been dropped
Ready == stacks_block_height >= StartHeight /\ last.response.ok

\* the store out.store is committed, the call is recorded
Apply(op, tx_sender, args, out) ==
  /\ payment_tags' = out.store.payment_tags
  /\ creator_index' = out.store.creator_index
  /\ recipient_index' = out.store.recipient_index
  /\ contract_stats' = out.store.contract_stats
  /\ tag_counter' = out.store.tag_counter
  /\ contract_paused' = out.store.contract_paused
  /\ last' = [op |-> op, tx_sender |-> tx_sender, args |-> args,
              height |-> stacks_block_height, response |-> out.response,
              printed |-> out.printed, calls |-> out.calls]
  /\ sbtc_ledger' =
       sbtc_ledger \o
         [i \in 1..Len(SelectSeq(out.calls, LAMBDA c: c.response.ok)) |->
            [tag_id |-> args.tag_id, height |-> stacks_block_height,
             caller |-> tx_sender,
             amount |-> SelectSeq(out.calls, LAMBDA c: c.response.ok)[i].args.amount,
             sender |-> SelectSeq(out.calls, LAMBDA c: c.response.ok)[i].args.sender,
             recipient |-> SelectSeq(out.calls, LAMBDA c: c.response.ok)[i].args.recipient]]
  /\ issued' = IF op = "create" /\ out.response.ok
               THEN Append(issued, out.response.val) ELSE issued
  /\ UNCHANGED <<stacks_block_height, base, retry, wallet>>

Create(Senders, Recipients, Amounts, Durations, MemoArgs) ==
  /\ Ready
  /\ \E tx_sender \in Senders, recipient \in Recipients, amount \in Amounts,
     expires_in_blocks \in Durations, memo \in MemoArgs :
      LET out == create_payment_tag(Store, tx_sender, stacks_block_height,
                                    recipient, amount, expires_in_blocks, memo)
      IN  /\ out.response.ok => tag_counter < base + MaxNewTags
          /\ Apply("create", tx_sender,
                   [recipient |-> recipient, amount |-> amount,
                    expires_in_blocks |-> expires_in_blocks, memo |-> memo], out)

Fulfill(Senders, Ids) ==
  /\ Ready
  /\ \E tx_sender \in Senders, tag_id \in Ids,
        transfer_response \in TransferResponses :
       Apply("fulfill", tx_sender, [tag_id |-> tag_id],
             fulfill_payment_tag(Store, tx_sender, stacks_block_height, tag_id,
                                 transfer_response))

Cancel(Senders, Ids) ==
  /\ Ready
  /\ \E tx_sender \in Senders, tag_id \in Ids :
       Apply("cancel", tx_sender, [tag_id |-> tag_id],
             cancel_payment_tag(Store, tx_sender, tag_id))

Expire(Senders, Ids) ==
  /\ Ready
  /\ \E tx_sender \in Senders, tag_id \in Ids :
       Apply("expire", tx_sender, [tag_id |-> tag_id],
             expire_payment_tag(Store, tx_sender, stacks_block_height, tag_id))

TogglePause(Senders) ==
  /\ Ready
  /\ \E tx_sender \in Senders :
       Apply("toggle", tx_sender, <<>>, toggle_contract_pause(Store, tx_sender))

\* a block is mined: the height grows by one
MineBlock ==
  /\ Ready
  /\ stacks_block_height < StartHeight + MaxBlocks
  /\ stacks_block_height' = stacks_block_height + 1
  /\ last' = NoCall
  /\ UNCHANGED <<payment_tags, creator_index, recipient_index, contract_stats,
                 tag_counter, contract_paused, sbtc_ledger, issued, base,
                 retry, wallet>>

\* a failed transaction has changed nothing: the next step continues from the
\* store it was made on
Discard ==
  /\ ~last.response.ok
  /\ last' = NoCall
  /\ UNCHANGED <<payment_tags, creator_index, recipient_index, contract_stats,
                 tag_counter, contract_paused, stacks_block_height,
                 sbtc_ledger, issued, base, retry, wallet>>

InitFrom(s) ==
  /\ payment_tags = s.payment_tags
  /\ creator_index = s.creator_index
  /\ recipient_index = s.recipient_index
  /\ contract_stats = s.contract_stats
  /\ tag_counter = s.tag_counter
  /\ contract_paused = s.contract_paused
  /\ stacks_block_height = StartHeight
  /\ last = NoCall
  /\ sbtc_ledger = <<>>
  /\ issued = [i \in 1..s.tag_counter |-> i]
  /\ base = s.tag_counter
  /\ retry = NoRetry
  /\ wallet = NoWallet

\* the contract right after deployment
Init == InitFrom(DeployedStore)

\* the lifecycle of the tags alice creates for bob, under every caller of
\* fulfill, cancel, expire and toggle, as blocks are mined
Next ==
  \/ Create({"alice", "bob"}, {"bob"}, {MIN_PAYMENT_AMOUNT}, {1}, {None})
  \/ Fulfill(Principals, CallIds)
  \/ Cancel(Principals, CallIds)
  \/ Expire(Principals, CallIds)
  \/ TogglePause(Principals)
  \/ MineBlock
  \/ Discard

Spec == Init /\ [][Next]_vars

----------------------------------------------------------------------------
(* create-payment-tag under every combination of valid and invalid arguments, *)
(* all calls made in one block                                                *)

NextCreate ==
  \/ Create({"alice"}, {"alice", "bob"},
            {MIN_PAYMENT_AMOUNT - 1, MIN_PAYMENT_AMOUNT},
            {0, 1, MAX_EXPIRATION_BLOCKS, MAX_EXPIRATION_BLOCKS + 1}, Memos)
  \/ TogglePause(Principals)
  \/ Discard

SpecCreate == Init /\ [][NextCreate]_vars

----------------------------------------------------------------------------
(* create-payment-tag under valid and invalid arguments, followed by the      *)
(* lifecycle of the newest tag it stored: bob pays or expires it, alice       *)
(* cancels it                                                                 *)

NextRecords ==
  \/ Create({"alice"}, {"alice", "bob"},
            {MIN_PAYMENT_AMOUNT - 1, MIN_PAYMENT_AMOUNT},
            {0, 1, MAX_EXPIRATION_BLOCKS, MAX_EXPIRATION_BLOCKS + 1}, Memos)
  \/ Fulfill({"bob"}, {tag_counter})
  \/ Cancel({"alice"}, {tag_counter})
  \/ Expire({"bob"}, {tag_counter})
  \/ MineBlock
  \/ Discard

SpecRecords == Init /\ [][NextRecords]_vars

----------------------------------------------------------------------------
(* The lifecycle under scheduling assumptions: blocks keep being mined, and   *)
(* expire-payment-tag is called on a tag on which it would succeed.  A tag is *)
(* created while the blocks still to be mined reach its expiry.               *)

\* a successful expire-payment-tag call on tag_id, by a third party
ExpireCall(tag_id) ==
  /\ Expire({"bob"}, {tag_id})
  /\ last'.response.ok

\* alice creates tags for bob; bob pays or expires any of them, alice cancels
\* any of them, the deployer pauses and unpauses
NextRetire ==
  \/ /\ stacks_block_height < StartHeight + MaxBlocks
     /\ Create({"alice"}, {"bob"}, {MIN_PAYMENT_AMOUNT}, {1}, {None})
  \/ Fulfill({"bob"}, DOMAIN payment_tags)
  \/ Cancel({"alice"}, DOMAIN payment_tags)
  \/ Expire({"bob"}, DOMAIN payment_tags)
  \/ TogglePause({CONTRACT_DEPLOYER})
  \/ MineBlock
  \/ Discard

\* A failed transaction is dropped before the next call is made, so a call
\* that the contract keeps accepting is enabled again and again here (after
\* each Discard) rather than without interruption: the weak fairness of the
\* scheduling is strong fairness on the calls of this state machine.
FairRetire ==
  /\ WF_vars(Discard)
  /\ SF_vars(MineBlock)
  /\ \A tag_id \in 1..MaxNewTags : SF_vars(ExpireCall(tag_id))

SpecRetire == Init /\ [][NextRetire]_vars /\ FairRetire

----------------------------------------------------------------------------
(* The contract after alice has created PrefillTags tags for bob in the block *)
(* before the observed run, which leaves the index entries of both one append *)
(* from the length bound of their lists.  The calls of the observed run are   *)
(* all made in the next block, in which those tags have expired.              *)

InitIndex ==
  /\ payment_tags = DeployedStore.payment_tags
  /\ creator_index = DeployedStore.creator_index
  /\ recipient_index = DeployedStore.recipient_index
  /\ contract_stats = DeployedStore.contract_stats
  /\ tag_counter = DeployedStore.tag_counter
  /\ contract_paused = DeployedStore.contract_paused
  /\ stacks_block_height = StartHeight - 1
  /\ last = NoCall
  /\ sbtc_ledger = <<>>
  /\ issued = <<>>
  /\ base = PrefillTags
  /\ retry = NoRetry
  /\ wallet = NoWallet

\* the transactions of the block before the observed run, then that block ends
Prefill ==
  /\ stacks_block_height < StartHeight
  /\ IF tag_counter < base
     THEN Apply("create", "alice",
                [recipient |-> "bob", amount |-> MIN_PAYMENT_AMOUNT,
                 expires_in_blocks |-> 1, memo |-> None],
                create_payment_tag(Store, "alice", stacks_block_height, "bob",
                                   MIN_PAYMENT_AMOUNT, 1, None))
     ELSE /\ stacks_block_height' = stacks_block_height + 1
          /\ last' = NoCall
          /\ UNCHANGED <<payment_tags, creator_index, recipient_index,
                         contract_stats, tag_counter, contract_paused,
                         sbtc_ledger, issued, base, retry, wallet>>

NextIndex ==
  \/ Prefill
  \/ Create({"alice", CONTRACT_DEPLOYER}, {"bob", CONTRACT_DEPLOYER},
            {MIN_PAYMENT_AMOUNT}, {1}, {None})
  \/ Fulfill({"alice"}, {base, tag_counter})
  \/ Cancel({"alice"}, {base, tag_counter})
  \/ Expire({"alice"}, {base, tag_counter})
  \/ TogglePause({CONTRACT_DEPLOYER})
  \/ Discard

SpecIndex == InitIndex /\ [][NextIndex]_vars

----------------------------------------------------------------------------
(* walletConnectUtils.ts: retryWithBackoff(fn, maxAttempts, baseDelay).  One  *)
(* call of the function, from its arguments to its return or throw; fn is     *)
(* any asynchronous function that settles: each call of it resolves with a    *)
(* value or rejects with an Error.                                            *)

DEFAULT_MAX_ATTEMPTS == 3
DEFAULT_BASE_DELAY == 1000

MaxAttempts == 3        \* the largest maxAttempts argument of the run

\* the arguments a caller passes: absent (the default applies) or a number
MaxAttemptsArgs == {None} \cup {Some(n) : n \in 0..MaxAttempts}

BaseDelayArgs == {None, Some(0), Some(1), Some(250)}

\* a parameter with a default value
Param(arg, default) == IF arg = None THEN default ELSE Unwrap(arg)

\* what fn resolves with, and the Error objects it rejects with
Results == {"r1", "r2"}

Errors == {"e1", "e2"}

\* let lastError: Error | null = null
NoError == "null"

\* new Error("Max retry attempts reached")
MAX_RETRY_ERROR == "Max retry attempts reached"

\* Math.pow(2, n) for a natural n
RECURSIVE pow(_, _)
pow(b, n) == IF n = 0 THEN 1 ELSE b * pow(b, n - 1)

\* what the promise of retryWithBackoff has settled to
Pending == [kind |-> "pending", value |-> ""]

Returned(v) == [kind |-> "returned", value |-> v]

Thrown(e) == [kind |-> "thrown", value |-> e]

\* one entry of the history of a call
Event(ev, n, value) == [ev |-> ev, n |-> n, value |-> value]

\* the call is entered: lastError = null, attempt = 0
retryWithBackoff(maxAttempts, baseDelay) ==
  [pc |-> "for",
   maxAttempts |-> Param(maxAttempts, DEFAULT_MAX_ATTEMPTS),
   baseDelay |-> Param(baseDelay, DEFAULT_BASE_DELAY),
   attempt |-> 0, lastError |-> NoError, outcome |-> Pending,
   trace |-> <<>>]

ContractIdle ==
  /\ payment_tags = DeployedStore.payment_tags
  /\ creator_index = DeployedStore.creator_index
  /\ recipient_index = DeployedStore.recipient_index
  /\ contract_stats = DeployedStore.contract_stats
  /\ tag_counter = DeployedStore.tag_counter
  /\ contract_paused = DeployedStore.contract_paused
  /\ stacks_block_height = StartHeight
  /\ last = NoCall
  /\ sbtc_ledger = <<>>
  /\ issued = <<>>
  /\ base = 0

ContractUnchanged ==
  UNCHANGED <<payment_tags, creator_index, recipient_index, contract_stats,
              tag_counter, contract_paused, stacks_block_height, last,
              sbtc_ledger, issued, base>>

InitRetry ==
  /\ ContractIdle
  /\ wallet = NoWallet
  /\ \E maxAttempts \in MaxAttemptsArgs, baseDelay \in BaseDelayArgs :
       retry = retryWithBackoff(maxAttempts, baseDelay)

\* for (...; attempt < maxAttempts; ...): fn is called, or the loop is left
\* and lastError || new Error(...) is thrown
ForTest ==
  /\ retry.pc = "for"
  /\ retry' =
       IF retry.attempt < retry.maxAttempts
       THEN [retry EXCEPT !.pc = "fn",
               !.trace = Append(@, Event("call", retry.attempt, ""))]
       ELSE [retry EXCEPT !.pc = "done",
               !.outcome = Thrown(IF retry.lastError # NoError
                                  THEN retry.lastError ELSE MAX_RETRY_ERROR)]
  /\ ContractUnchanged /\ UNCHANGED wallet

\* return await fn(): fn resolves
FnResolves ==
  /\ retry.pc = "fn"
  /\ \E v \in Results :
       retry' = [retry EXCEPT !.pc = "done", !.outcome = Returned(v),
                   !.trace = Append(@, Event("resolved", retry.attempt, v))]
  /\ ContractUnchanged /\ UNCHANGED wallet

\* faulty variant: the delay is also awaited after the last attempt
FnRejects_always_waits ==
  /\ retry.pc = "fn"
  /\ \E e \in Errors :
       retry' = [retry EXCEPT !.pc = "delay", !.lastError = e,
                   !.trace = @ \o <<Event("rejected", retry.attempt, e),
                                    Event("wait", retry.baseDelay
                                                    * pow(2, retry.attempt), "")>>]
  /\ ContractUnchanged /\ UNCHANGED wallet

\* catch (error): fn rejects; the delay is started unless this was the last
\* attempt
FnRejects ==
  /\ retry.pc = "fn"
  /\ \E e \in Errors :
       retry' =
         IF retry.attempt < retry.maxAttempts - 1
         THEN [retry EXCEPT !.pc = "delay", !.lastError = e,
                 !.trace = @ \o <<Event("rejected", retry.attempt, e),
                                  Event("wait", retry.baseDelay
                                                  * pow(2, retry.attempt), "")>>]
         ELSE [retry EXCEPT !.pc = "for", !.lastError = e,
                 !.attempt = @ + 1,
                 !.trace = Append(@, Event("rejected", retry.attempt, e))]
  /\ ContractUnchanged /\ UNCHANGED wallet

\* await delay(delayMs): the timer fires, the loop goes on with attempt++
DelayElapsed ==
  /\ retry.pc = "delay"
  /\ retry' = [retry EXCEPT !.pc = "for", !.attempt = @ + 1]
  /\ ContractUnchanged /\ UNCHANGED wallet

NextRetry ==
  \/ ForTest
  \/ FnResolves
  \/ FnRejects
  \/ DelayElapsed

\* fn settles, timers fire and the event loop runs the continuation
SpecRetry == InitRetry /\ [][NextRetry]_vars /\ WF_vars(NextRetry)

----------------------------------------------------------------------------
(* walletConnect.ts: the session_request listener.  The listener runs from    *)
(* the event to its first await in one step; web3wallet.respondSessionRequest *)
(* is a call into the WalletConnect library, which sends the response over    *)
(* the relay and resolves, or rejects.                                        *)

MaxRequests == 2        \* session_request events of the run

SupportedMethods ==
  {"stx_getAddresses", "stx_signTransaction", "stx_signMessage",
   "stx_callContract", "stx_transferStx", "stx_signStructuredMessage"}

\* the methods of the events: the supported ones and one that is not
Methods == SupportedMethods \cup {"eth_sign"}

Topics == {"t1", "t2"}

RequestIds == {1, 2}

\* request.params of the event: an object, or absent
ParamsArgs == {"object", "absent"}

\* the handlers that destructure request.params, which throws a TypeError
\* when it is absent
ReadsParams(method) == method \in SupportedMethods \ {"stx_getAddresses"}

\* the result the listener first responds with
FirstResult(method, params) ==
  IF method \notin SupportedMethods THEN "Unsupported method"
  ELSE IF ReadsParams(method) /\ params = "absent" THEN "error"
  ELSE method

\* a call web3wallet.respondSessionRequest({ topic, requestId, result })
Respond(req, topic, id, result) ==
  [req |-> req, topic |-> topic, requestId |-> id, result |-> result,
   status |-> "pending"]

\* the listener is in its try block unless the handler has thrown
FirstPc(method, params) ==
  IF FirstResult(method, params) = "error" THEN "catch" ELSE "try"

InitWallet ==
  /\ ContractIdle
  /\ retry = NoRetry
  /\ wallet = [events |-> <<>>, pcs |-> <<>>, calls |-> <<>>]

\* web3wallet.on("session_request", ...): an event arrives and the listener
\* runs up to the respondSessionRequest call it awaits
SessionRequest ==
  /\ Len(wallet.events) < MaxRequests
  /\ \E topic \in Topics, id \in RequestIds, method \in Methods,
        params \in ParamsArgs :
       wallet' =
         [events |-> Append(wallet.events,
                            [topic |-> topic, id |-> id, method |-> method,
                             params |-> params]),
          pcs |-> Append(wallet.pcs, FirstPc(method, params)),
          calls |-> Append(wallet.calls,
                           Respond(Len(wallet.events) + 1, topic, id,
                                   FirstResult(method, params)))]
  /\ ContractUnchanged /\ UNCHANGED retry

\* the call that the listener of event req awaits
Awaited(req) ==
  CHOOSE k \in 1..Len(wallet.calls) :
    wallet.calls[k].req = req /\ wallet.calls[k].status = "pending"

\* the awaited respondSessionRequest resolves: the listener returns
RespondResolves ==
  /\ \E req \in 1..Len(wallet.events) :
       /\ wallet.pcs[req] \in {"try", "catch"}
       /\ wallet' = [wallet EXCEPT !.pcs[req] = "done",
                       !.calls[Awaited(req)].status = "resolved"]
  /\ ContractUnchanged /\ UNCHANGED retry

\* the awaited respondSessionRequest rejects: in the try block the catch
\* block responds with String(error); in the catch block the rejection
\* leaves the listener
RespondRejects ==
  /\ \E req \in 1..Len(wallet.events) :
       /\ wallet.pcs[req] \in {"try", "catch"}
       /\ wallet' =
            IF wallet.pcs[req] = "try"
            THEN [wallet EXCEPT !.pcs[req] = "catch",
                    !.calls = Append([@ EXCEPT ![Awaited(req)].status = "rejected"],
                                     Respond(req, wallet.events[req].topic,
                                             wallet.events[req].id, "error"))]
            ELSE [wallet EXCEPT !.pcs[req] = "unhandled",
                    !.calls[Awaited(req)].status = "rejected"]
  /\ ContractUnchanged /\ UNCHANGED retry

NextWallet ==
  \/ SessionRequest
  \/ RespondResolves
  \/ RespondRejects

\* every respondSessionRequest call settles
SpecWallet ==
  InitWallet /\ [][NextWallet]_vars /\ WF_vars(RespondResolves \/ RespondRejects)

----------------------------------------------------------------------------
(* Properties *)

StoreUnchanged ==
  UNCHANGED <<payment_tags, creator_index, recipient_index, contract_stats,
              tag_counter, contract_paused>>

TagOps == {"fulfill", "cancel", "expire"}

\* C1 (Monotonic ids): the k-th successful create-payment-tag returns id k;
\* tag-counter equals the number of successful creates; the registry holds a
\* tag for exactly the ids 1..tag-counter; a successful create returns the
\* counter plus one and a failed create consumes no id.
C1_MonotonicIds ==
  /\ [](/\ issued = [k \in 1..Len(issued) |-> k]
        /\ tag_counter = Len(issued)
        /\ DOMAIN payment_tags = 1..tag_counter)
  /\ [][last'.op = "create" =>
          IF last'.response.ok
          THEN /\ last'.response.val = tag_counter + 1
               /\ tag_counter' = tag_counter + 1
          ELSE /\ tag_counter' = tag_counter
               /\ DOMAIN payment_tags' = DOMAIN payment_tags
               /\ issued' = issued]_vars

\* a second create has just succeeded and returned id 2
C1_Witness ==
  /\ last.op = "create"
  /\ last.response = Ok(2)
  /\ issued = <<1, 2>>
  /\ tag_counter = 2

\* C2 (Terminal-state immutability): once a tag is paid, canceled or expired,
\* no fulfill, cancel or expire call on its id succeeds, whoever calls, at any
\* height, paused or not, and the tag's record never changes again.
C2_TerminalImmutable ==
  [][\A i \in DOMAIN payment_tags :
       payment_tags[i].state \in TerminalStates =>
         /\ i \in DOMAIN payment_tags'
         /\ payment_tags'[i] = payment_tags[i]
         /\ (last'.op \in TagOps /\ last'.args.tag_id = i
               => ~last'.response.ok)]_vars

\* the creator's cancel of a paid tag has just been refused, at or after the
\* tag's expiry block
C2_Witness ==
  /\ last.op = "cancel"
  /\ last.args.tag_id \in DOMAIN payment_tags
  /\ payment_tags[last.args.tag_id].state = STATE_PAID
  /\ last.tx_sender = payment_tags[last.args.tag_id].creator
  /\ last.height >= payment_tags[last.args.tag_id].expires_at
  /\ ~last.response.ok

\* C3 (Atomic settlement on failure): when fulfill-payment-tag passes its own
\* checks and the sBTC transfer answers (err e), the call returns (err e) and
\* commits nothing: the tag stays pending without settlement data, no
\* statistic moves, nothing is printed.
C3_TransferFailureAborts ==
  [][(/\ last'.op = "fulfill"
      /\ last'.calls # <<>>
      /\ ~last'.calls[1].response.ok)
     => /\ last'.response = Err(last'.calls[1].response.err)
        /\ StoreUnchanged
        /\ payment_tags'[last'.args.tag_id].state = STATE_PENDING
        /\ payment_tags'[last'.args.tag_id].payment_tx = None
        /\ payment_tags'[last'.args.tag_id].payment_block = None
        /\ StatValue(contract_stats', "tags-fulfilled")
             = StatValue(contract_stats, "tags-fulfilled")
        /\ last'.printed = <<>>
        /\ sbtc_ledger' = sbtc_ledger]_vars

\* a fulfill of a pending, unexpired tag of an unpaused contract has just
\* failed with the transfer's error
C3_Witness ==
  /\ last.op = "fulfill"
  /\ Len(last.calls) = 1
  /\ last.calls[1].response = Err(1)
  /\ last.response = Err(1)
  /\ ~contract_paused
  /\ payment_tags[last.args.tag_id].state = STATE_PENDING
  /\ last.height < payment_tags[last.args.tag_id].expires_at

\* the successful transfers recorded for tag i
TransfersOf(i) == {k \in 1..Len(sbtc_ledger) : sbtc_ledger[k].tag_id = i}

\* C4 (Paid if and only if transferred): a paid tag has exactly one successful
\* transfer, made at the height recorded as its payment block, from the caller
\* of that fulfill to the tag's recipient for the tag's amount; a tag that is
\* not paid has none, and every successful transfer belongs to a tag.
C4_PaidIffTransferred ==
  /\ \A i \in DOMAIN payment_tags :
       IF payment_tags[i].state = STATE_PAID
       THEN /\ Cardinality(TransfersOf(i)) = 1
            /\ \A k \in TransfersOf(i) :
                 /\ sbtc_ledger[k].sender = sbtc_ledger[k].caller
                 /\ sbtc_ledger[k].recipient = payment_tags[i].recipient
                 /\ sbtc_ledger[k].amount = payment_tags[i].amount
                 /\ payment_tags[i].payment_block = Some(sbtc_ledger[k].height)
       ELSE TransfersOf(i) = {}
  /\ \A k \in 1..Len(sbtc_ledger) : sbtc_ledger[k].tag_id \in DOMAIN payment_tags
  /\ last.op = "fulfill" /\ last.response.ok
       => /\ Len(last.calls) = 1
          /\ sbtc_ledger[Len(sbtc_ledger)].tag_id = last.args.tag_id
          /\ sbtc_ledger[Len(sbtc_ledger)].caller = last.tx_sender
          /\ sbtc_ledger[Len(sbtc_ledger)].height = last.height

\* one tag has been paid by a third party and another one canceled
C4_Witness ==
  /\ Len(sbtc_ledger) = 1
  /\ sbtc_ledger[1].sender = CONTRACT_DEPLOYER
  /\ \E i, j \in DOMAIN payment_tags :
       /\ payment_tags[i].state = STATE_PAID
       /\ payment_tags[j].state = STATE_CANCELED

\* C5 (Expiration boundary): for a pending tag with expiry E, expire fails
\* with ERR-EXPIRED (the code's answer to "not yet expired") at every height
\* below E, E - 1 included, and succeeds at every height from E on; fulfill of
\* an unpaused contract reaches the transfer and succeeds when it does at
\* every height below E, and fails with ERR-EXPIRED from E on.
C5_ExpirationBoundary ==
  [][\A i \in DOMAIN payment_tags :
       (/\ payment_tags[i].state = STATE_PENDING
        /\ last'.op \in {"expire", "fulfill"}
        /\ last'.args.tag_id = i)
       => LET E == payment_tags[i].expires_at
              h == stacks_block_height
          IN  /\ (last'.op = "expire" /\ h < E)
                   => last'.response = Err(ERR_EXPIRED)
              /\ (last'.op = "expire" /\ h >= E)
                   => /\ last'.response = Ok(i)
                      /\ payment_tags'[i].state = STATE_EXPIRED
              /\ (last'.op = "fulfill" /\ ~contract_paused /\ h < E)
                   => /\ Len(last'.calls) = 1
                      /\ last'.calls[1].response.ok
                           => /\ last'.response = Ok(i)
                              /\ payment_tags'[i].state = STATE_PAID
              /\ (last'.op = "fulfill" /\ ~contract_paused /\ h >= E)
                   => /\ last'.response = Err(ERR_EXPIRED)
                      /\ last'.calls = <<>>]_vars

\* a tag has just been expired in its expiry block itself, after an expire in
\* the block before was possible only as a failure
C5_Witness ==
  /\ last.op = "expire"
  /\ last.response.ok
  /\ last.height = payment_tags[last.args.tag_id].expires_at
  /\ payment_tags[last.args.tag_id].created_at < last.height

\* the store with the pause flag cleared and everything else the same
Unpaused == [Store EXCEPT !.contract_paused = FALSE]

\* C6 (Pause gating): while contract-paused is true every create-payment-tag
\* and every fulfill-payment-tag call fails with the paused error
\* (ERR-UNAUTHORIZED) and changes nothing, while cancel, expire and the reads
\* of tags, indexes and statistics answer as they would with the flag false.
C6_PauseGating ==
  [][contract_paused =>
       /\ last'.op \in {"create", "fulfill"}
            => /\ last'.response = Err(ERR_UNAUTHORIZED)
               /\ StoreUnchanged
       /\ last'.op = "cancel"
            => last'.response =
                 cancel_payment_tag(Unpaused, last'.tx_sender,
                                    last'.args.tag_id).response
       /\ last'.op = "expire"
            => last'.response =
                 expire_payment_tag(Unpaused, last'.tx_sender,
                                    stacks_block_height,
                                    last'.args.tag_id).response
       /\ \A i \in CallIds :
            /\ get_payment_tag(Store, i) = get_payment_tag(Unpaused, i)
            /\ can_expire_tag(Store, stacks_block_height, i)
                 = can_expire_tag(Unpaused, stacks_block_height, i)
       /\ \A p \in Principals :
            /\ get_creator_tags(Store, p) = get_creator_tags(Unpaused, p)
            /\ get_recipient_tags(Store, p) = get_recipient_tags(Unpaused, p)
       /\ get_tag_counter(Store) = get_tag_counter(Unpaused)]_vars

\* how often id i occurs in the id list of p's entry of an index
Occurrences(index, p, i) ==
  LET ids == IndexEntry(index, p).tag_ids
  IN  Cardinality({k \in 1..Len(ids) : ids[k] = i})

\* C7 (Index completeness): every tag id of the registry occurs exactly once
\* in the creator-index entry of its creator and exactly once in the
\* recipient-index entry of its recipient, and in no other party's entry,
\* also when a party has created or received more than MAX-TAGS-PER-USER tags.
C7_IndexComplete ==
  \A i \in DOMAIN payment_tags : \A p \in Principals :
    /\ Occurrences(creator_index, p, i)
         = IF p = payment_tags[i].creator THEN 1 ELSE 0
    /\ Occurrences(recipient_index, p, i)
         = IF p = payment_tags[i].recipient THEN 1 ELSE 0

\* C8 (Index capacity aborts create): when the caller's creator-index entry
\* or the recipient's recipient-index entry already holds MAX-TAGS-PER-USER
\* ids, an otherwise valid create-payment-tag fails and leaves the counter,
\* the registry, both indexes and the statistics unchanged.
C8_IndexFullAbortsCreate ==
  [][(/\ last'.op = "create"
      /\ create_checks(Store, last'.tx_sender, last'.args.recipient,
                       last'.args.amount, last'.args.expires_in_blocks,
                       last'.args.memo) = 0
      /\ \/ Len(IndexEntry(creator_index, last'.tx_sender).tag_ids)
              = MAX_TAGS_PER_USER
         \/ Len(IndexEntry(recipient_index, last'.args.recipient).tag_ids)
              = MAX_TAGS_PER_USER)
     => /\ ~last'.response.ok
        /\ StoreUnchanged]_vars

\* the checks of create-payment-tag that a call violates
CreateViolations(paused, tx_sender, a) ==
  {c \in {"paused", "amount", "duration", "self-payment", "memo"} :
     \/ c = "paused" /\ paused
     \/ c = "amount" /\ a.amount < MIN_PAYMENT_AMOUNT
     \/ c = "duration" /\ ~(0 < a.expires_in_blocks
                            /\ a.expires_in_blocks <= MAX_EXPIRATION_BLOCKS)
     \/ c = "self-payment" /\ tx_sender = a.recipient
     \/ c = "memo" /\ a.memo = Some("")}

\* C9 (Create is all-or-nothing): a create-payment-tag call that violates any
\* validation (paused, amount below the minimum, duration out of range,
\* self-payment, empty memo) fails, leaves the counter, the registry, both
\* indexes and every statistic as they were, and prints no event.
C9_CreateAllOrNothing ==
  [][(/\ last'.op = "create"
      /\ CreateViolations(contract_paused, last'.tx_sender, last'.args) # {})
     => /\ ~last'.response.ok
        /\ StoreUnchanged
        /\ issued' = issued
        /\ last'.printed = <<>>]_vars

\* after one tag was created, a create with an empty memo has just failed
C9_Witness ==
  /\ last.op = "create"
  /\ last.args.memo = Some("")
  /\ last.response = Err(ERR_EMPTY_MEMO)
  /\ tag_counter = 1
  /\ StatValue(contract_stats, "tags-created") = 1

\* the fixed order of the checks of create-payment-tag
CreateCheckOrder == <<"paused", "amount", "duration", "self-payment", "memo">>

\* the error create-payment-tag gives when check c fails
CreateErrorOf(c, a) ==
  CASE c = "paused" -> ERR_UNAUTHORIZED
    [] c = "amount" -> ERR_INVALID_AMOUNT
    [] c = "duration" -> IF a.expires_in_blocks > MAX_EXPIRATION_BLOCKS
                         THEN ERR_MAX_EXPIRATION_EXCEEDED
                         ELSE ERR_INVALID_AMOUNT
    [] c = "self-payment" -> ERR_SELF_PAYMENT
    [] c = "memo" -> ERR_EMPTY_MEMO

----------------------------------------------------------------------------
\* the call just made is a create-payment-tag on an unpaused contract
UnpausedCreate == last'.op = "create" /\ ~contract_paused

\* the call just made has a recipient other than the caller, the minimum
\* amount, a duration of one block and no memo, except where stated
PlainCreate(amount, expires_in_blocks, memo) ==
  /\ UnpausedCreate
  /\ last'.tx_sender # last'.args.recipient
  /\ last'.args.amount = amount
  /\ last'.args.expires_in_blocks = expires_in_blocks
  /\ last'.args.memo = memo

\* C11 (Create input boundaries): unpaused, with caller # recipient and no
\* memo, create-payment-tag succeeds for the minimum amount and fails with
\* invalid-amount one below it; succeeds for the durations 1 and
\* MAX-EXPIRATION-BLOCKS, fails with duration-exceeded one above the maximum
\* and is rejected for duration 0; an empty memo fails with empty-memo and
\* caller = recipient fails with self-payment.
C11_CreateBoundaries ==
  [][/\ \A d \in {1, MAX_EXPIRATION_BLOCKS} :
          PlainCreate(MIN_PAYMENT_AMOUNT, d, None)
            => last'.response = Ok(tag_counter + 1)
     /\ \A d \in {1, MAX_EXPIRATION_BLOCKS} :
          PlainCreate(MIN_PAYMENT_AMOUNT - 1, d, None)
            => last'.response = Err(ERR_INVALID_AMOUNT)
     /\ PlainCreate(MIN_PAYMENT_AMOUNT, MAX_EXPIRATION_BLOCKS + 1, None)
          => last'.response = Err(ERR_MAX_EXPIRATION_EXCEEDED)
     /\ PlainCreate(MIN_PAYMENT_AMOUNT, 0, None) => ~last'.response.ok
     /\ \A d \in {1, MAX_EXPIRATION_BLOCKS} :
          PlainCreate(MIN_PAYMENT_AMOUNT, d, Some(""))
            => last'.response = Err(ERR_EMPTY_MEMO)
     /\ (/\ UnpausedCreate
         /\ last'.tx_sender = last'.args.recipient
         /\ last'.args.amount = MIN_PAYMENT_AMOUNT
         /\ last'.args.expires_in_blocks \in {1, MAX_EXPIRATION_BLOCKS}
         /\ last'.args.memo = None)
          => last'.response = Err(ERR_SELF_PAYMENT)]_vars

\* a create of the minimum amount for the maximum duration has just succeeded
\* on an unpaused contract
C11_Witness ==
  /\ last.op = "create"
  /\ last.response.ok
  /\ ~contract_paused
  /\ last.args.amount = MIN_PAYMENT_AMOUNT
  /\ last.args.expires_in_blocks = MAX_EXPIRATION_BLOCKS
  /\ last.args.memo = None
  /\ payment_tags[last.response.val].expires_at
       = last.height + MAX_EXPIRATION_BLOCKS

----------------------------------------------------------------------------
\* the call just made is a fulfill, cancel or expire on a stored tag
TagCall == last'.op \in TagOps /\ last'.args.tag_id \in DOMAIN payment_tags

\* the tag the call just made is about, as it was before the call
CalledTag == payment_tags[last'.args.tag_id]

\* the call just made is a fulfill, cancel or expire on a tag that was paid,
\* canceled or expired
TerminalCall == TagCall /\ CalledTag.state \in TerminalStates

\* C12 (Terminal tags answer "not pending"): every fulfill-payment-tag,
\* cancel-payment-tag or expire-payment-tag call on a paid, canceled or
\* expired tag fails with ERR-NOT-PENDING, whoever the caller is, whatever the
\* height and whether or not the contract is paused.
C12_TerminalNotPending ==
  [][TerminalCall => last'.response = Err(ERR_NOT_PENDING)]_vars

\* C12, amended: every fulfill, cancel or expire call on a paid, canceled or
\* expired tag fails and changes nothing, at every height; the error is
\* ERR-NOT-PENDING for every expire, for a cancel by the tag's creator and for
\* a fulfill on an unpaused contract, and ERR-UNAUTHORIZED for a cancel by
\* anyone else and for a fulfill on a paused contract.
C12_TerminalRejected ==
  [][TerminalCall =>
       /\ StoreUnchanged
       /\ last'.response =
            Err(IF last'.op = "fulfill" /\ contract_paused
                  THEN ERR_UNAUTHORIZED
                ELSE IF last'.op = "cancel"
                        /\ last'.tx_sender # CalledTag.creator
                  THEN ERR_UNAUTHORIZED
                ELSE ERR_NOT_PENDING)]_vars

\* on a paused contract, at the tag's expiry height, the creator's second
\* cancel of a canceled tag has just been answered with ERR-NOT-PENDING
C12_Witness ==
  /\ last.op = "cancel"
  /\ last.response = Err(ERR_NOT_PENDING)
  /\ contract_paused
  /\ payment_tags[last.args.tag_id].state = STATE_CANCELED
  /\ last.tx_sender = payment_tags[last.args.tag_id].creator
  /\ last.height >= payment_tags[last.args.tag_id].expires_at

----------------------------------------------------------------------------
\* C13 (Fulfill validation order): fulfill-payment-tag returns the error of
\* the first failing check in the order paused, id valid (not found), state
\* pending (not pending), height < expires-at (expired), and calls the
\* transfer only when all four pass; so a fulfill of an id never assigned on a
\* paused contract reports paused, and a fulfill of a terminal tag past its
\* expiry reports not-pending.
C13_FulfillValidationOrder ==
  [][last'.op = "fulfill" =>
       LET tag_id == last'.args.tag_id
           e == IF contract_paused THEN ERR_UNAUTHORIZED
                ELSE IF tag_id \notin DOMAIN payment_tags THEN ERR_NOT_FOUND
                ELSE IF payment_tags[tag_id].state # STATE_PENDING
                  THEN ERR_NOT_PENDING
                ELSE IF ~(last'.height < payment_tags[tag_id].expires_at)
                  THEN ERR_EXPIRED
                ELSE 0
       IN  IF e # 0
           THEN last'.response = Err(e) /\ last'.calls = <<>>
           ELSE Len(last'.calls) = 1]_vars

----------------------------------------------------------------------------
\* C14 (Cancel is the creator's right while pending): cancel-payment-tag
\* succeeds if and only if the tag exists, the caller is its creator and its
\* state is pending, whatever the height and the pause flag; on success the
\* state becomes canceled; a caller other than the creator gets unauthorized
\* and the tag is unchanged.
C14_CancelByCreatorWhilePending ==
  [][last'.op = "cancel" =>
       LET tag_id == last'.args.tag_id
           exists == tag_id \in DOMAIN payment_tags
           allowed == /\ exists
                      /\ last'.tx_sender = payment_tags[tag_id].creator
                      /\ payment_tags[tag_id].state = STATE_PENDING
       IN  /\ last'.response.ok <=> allowed
           /\ allowed =>
                payment_tags' = [payment_tags EXCEPT
                                   ![tag_id].state = STATE_CANCELED]
           /\ (exists /\ last'.tx_sender # payment_tags[tag_id].creator) =>
                /\ last'.response = Err(ERR_UNAUTHORIZED)
                /\ payment_tags' = payment_tags]_vars

\* on a paused contract, at the tag's expiry height, the creator has just
\* canceled a pending tag
C14_Witness ==
  /\ last.op = "cancel"
  /\ last.response.ok
  /\ contract_paused
  /\ payment_tags[last.args.tag_id].state = STATE_CANCELED
  /\ last.tx_sender = payment_tags[last.args.tag_id].creator
  /\ last.height >= payment_tags[last.args.tag_id].expires_at

----------------------------------------------------------------------------
\* C15 (Expire is open to anyone): expire-payment-tag succeeds if and only if
\* the tag exists, its state is pending and the height is at least its
\* expires-at, for every caller and whatever the pause flag; on success the
\* state becomes expired.
C15_ExpireOpenToAnyone ==
  [][last'.op = "expire" =>
       LET tag_id == last'.args.tag_id
           allowed == /\ tag_id \in DOMAIN payment_tags
                      /\ payment_tags[tag_id].state = STATE_PENDING
                      /\ last'.height >= payment_tags[tag_id].expires_at
       IN  /\ last'.response.ok <=> allowed
           /\ allowed =>
                payment_tags' = [payment_tags EXCEPT
                                   ![tag_id].state = STATE_EXPIRED]]_vars

\* on a paused contract a party that is neither the creator nor the recipient
\* of the tag has just expired it
C15_Witness ==
  /\ last.op = "expire"
  /\ last.response.ok
  /\ contract_paused
  /\ payment_tags[last.args.tag_id].state = STATE_EXPIRED
  /\ last.tx_sender \notin {payment_tags[last.args.tag_id].creator,
                            payment_tags[last.args.tag_id].recipient}

----------------------------------------------------------------------------
\* C16 (Pause toggle authorization): contract-paused starts false;
\* toggle-contract-pause by the deployer flips it and returns the new value,
\* so that two consecutive deployer calls restore the value; by anyone else it
\* fails with unauthorized and leaves the flag; no other operation changes the
\* flag.
C16_PauseToggleAuthorization ==
  /\ ~contract_paused
  /\ [][/\ (last'.op = "toggle" /\ last'.tx_sender = CONTRACT_DEPLOYER) =>
             /\ contract_paused' = ~contract_paused
             /\ last'.response = OkBool(contract_paused')
        /\ (/\ last.op = "toggle" /\ last.tx_sender = CONTRACT_DEPLOYER
            /\ last'.op = "toggle" /\ last'.tx_sender = CONTRACT_DEPLOYER) =>
             contract_paused' = ~last.response.flag
        /\ (last'.op = "toggle" /\ last'.tx_sender # CONTRACT_DEPLOYER) =>
             /\ last'.response = Err(ERR_UNAUTHORIZED)
             /\ contract_paused' = contract_paused
        /\ last'.op # "toggle" => contract_paused' = contract_paused]_vars

\* the deployer's second toggle in a row has just unpaused the contract again
\* and returned false
C16_Witness ==
  /\ last.op = "toggle"
  /\ last.tx_sender = CONTRACT_DEPLOYER
  /\ last.response = OkBool(FALSE)
  /\ ~contract_paused

----------------------------------------------------------------------------
\* the calls that can be made on the current store
CallsHere ==
  [op : {"create"}, tx_sender : {"alice"},
   args : [recipient : {"alice", "bob"},
           amount : {MIN_PAYMENT_AMOUNT - 1, MIN_PAYMENT_AMOUNT},
           expires_in_blocks : {0, 1, MAX_EXPIRATION_BLOCKS + 1},
           memo : Memos]]
  \cup [op : TagOps, tx_sender : Principals, args : [tag_id : CallIds]]
  \cup [op : {"toggle"}, tx_sender : Principals, args : {<<>>}]

\* what call c answers on the current store at the current height, the
\* transfer of a fulfill going through
ResponseHere(c) ==
  CASE c.op = "create" ->
         create_payment_tag(Store, c.tx_sender, stacks_block_height,
                            c.args.recipient, c.args.amount,
                            c.args.expires_in_blocks, c.args.memo).response
    [] c.op = "fulfill" ->
         fulfill_payment_tag(Store, c.tx_sender, stacks_block_height,
                             c.args.tag_id, Ok(TRUE)).response
    [] c.op = "cancel" ->
         cancel_payment_tag(Store, c.tx_sender, c.args.tag_id).response
    [] c.op = "expire" ->
         expire_payment_tag(Store, c.tx_sender, stacks_block_height,
                            c.args.tag_id).response
    [] c.op = "toggle" -> toggle_contract_pause(Store, c.tx_sender).response

\* the validation predicates of the operations that call c violates on the
\* current store at the current height; a caller that is not the creator
\* (cancel) or not the administrator (toggle) violates the same predicate
ViolationsHere(c) ==
  LET found == c.args.tag_id \in DOMAIN payment_tags
      tag == payment_tags[c.args.tag_id]
  IN  CASE c.op = "create" ->
             CreateViolations(contract_paused, c.tx_sender, c.args)
        [] c.op = "fulfill" ->
             {p \in {"paused", "not-found", "not-pending", "expired"} :
                \/ p = "paused" /\ contract_paused
                \/ p = "not-found" /\ ~found
                \/ p = "not-pending" /\ found /\ tag.state # STATE_PENDING
                \/ p = "expired" /\ found
                     /\ stacks_block_height >= tag.expires_at}
        [] c.op = "cancel" ->
             {p \in {"not-found", "unauthorized", "not-pending"} :
                \/ p = "not-found" /\ ~found
                \/ p = "unauthorized" /\ found /\ c.tx_sender # tag.creator
                \/ p = "not-pending" /\ found /\ tag.state # STATE_PENDING}
        [] c.op = "expire" ->
             {p \in {"not-found", "not-pending", "not-yet-expired"} :
                \/ p = "not-found" /\ ~found
                \/ p = "not-pending" /\ found /\ tag.state # STATE_PENDING
                \/ p = "not-yet-expired" /\ found
                     /\ stacks_block_height < tag.expires_at}
        [] c.op = "toggle" ->
             {p \in {"unauthorized"} : c.tx_sender # CONTRACT_DEPLOYER}

\* C17 (Error taxonomy is one-to-one): every error value returned identifies
\* one validation predicate: when a call has just failed, every call that
\* would fail on the same store with the same error value violates a
\* predicate that the failed call violates too.
C17_ErrorTaxonomyOneToOne ==
  (last.op # "none" /\ ~last.response.ok /\ last.calls = <<>>) =>
    \A c \in CallsHere :
      ResponseHere(c) = last.response =>
        ViolationsHere(c) \cap ViolationsHere(last) # {}

----------------------------------------------------------------------------
\* C18 (Tag record invariants): every tag in the registry has
\* amount >= MIN-PAYMENT-AMOUNT, creator # recipient,
\* created-at < expires-at <= created-at + MAX-EXPIRATION-BLOCKS, a memo that
\* is absent or non-empty, and one of the states pending, paid, canceled,
\* expired.
C18_TagRecordInvariants ==
  \A id \in DOMAIN payment_tags :
    LET tag == payment_tags[id] IN
      /\ tag.amount >= MIN_PAYMENT_AMOUNT
      /\ tag.creator # tag.recipient
      /\ tag.created_at < tag.expires_at
      /\ tag.expires_at <= tag.created_at + MAX_EXPIRATION_BLOCKS
      /\ tag.memo = None \/ Len(Unwrap(tag.memo)) > 0
      /\ tag.state \in {STATE_PENDING, STATE_PAID, STATE_CANCELED,
                        STATE_EXPIRED}

\* the registry holds a paid tag of the maximum duration with a memo, made
\* after creates with invalid arguments were refused, and an expired tag
C18_Witness ==
  /\ \E id \in DOMAIN payment_tags :
       /\ payment_tags[id].state = STATE_PAID
       /\ payment_tags[id].memo = Some("m")
       /\ payment_tags[id].expires_at
            = payment_tags[id].created_at + MAX_EXPIRATION_BLOCKS
  /\ \E id \in DOMAIN payment_tags : payment_tags[id].state = STATE_EXPIRED

----------------------------------------------------------------------------
\* C19 (Effect of a successful create): a create-payment-tag call by caller c
\* at height h with recipient r, amount a, duration d and memo m that succeeds
\* returns the old tag-counter + 1, stores under that id a tag with creator c,
\* recipient r, amount a, created-at h, expires-at h + d, memo m, state
\* pending and no settlement data, leaves the other tags, sets tag-counter to
\* that id and increments tags-created by exactly one.
C19_CreateEffect ==
  [][(last'.op = "create" /\ last'.response.ok) =>
       LET id == tag_counter + 1 IN
         /\ last'.response = Ok(id)
         /\ DOMAIN payment_tags' = DOMAIN payment_tags \cup {id}
         /\ id \notin DOMAIN payment_tags
         /\ \A i \in DOMAIN payment_tags : payment_tags'[i] = payment_tags[i]
         /\ payment_tags'[id] =
              [creator |-> last'.tx_sender,
               recipient |-> last'.args.recipient,
               amount |-> last'.args.amount,
               created_at |-> stacks_block_height,
               expires_at |-> stacks_block_height
                                + last'.args.expires_in_blocks,
               memo |-> last'.args.memo,
               state |-> STATE_PENDING,
               payment_tx |-> None,
               payment_block |-> None]
         /\ tag_counter' = id
         /\ StatValue(contract_stats', "tags-created")
              = StatValue(contract_stats, "tags-created") + 1
         /\ \A k \in {"tags-fulfilled", "tags-canceled", "tags-expired"} :
              StatValue(contract_stats', k) = StatValue(contract_stats, k)]_vars

\* the second create has just returned id 2 and stored a tag with a memo that
\* expires MAX-EXPIRATION-BLOCKS after the current height
C19_Witness ==
  /\ last.op = "create"
  /\ last.response = Ok(2)
  /\ tag_counter = 2
  /\ StatValue(contract_stats, "tags-created") = 2
  /\ payment_tags[2].memo = Some("m")
  /\ payment_tags[2].state = STATE_PENDING
  /\ payment_tags[2].expires_at = stacks_block_height + MAX_EXPIRATION_BLOCKS

----------------------------------------------------------------------------
\* C20 (Settlement only on paid): a tag's payment-tx and payment-block are
\* present only if its state is paid, so pending, canceled and expired tags
\* have both absent; and a paid tag's payment-block is the height of the
\* fulfill call that paid it.
C20_SettlementOnlyOnPaid ==
  /\ \A id \in DOMAIN payment_tags :
       LET tag == payment_tags[id] IN
         /\ (IsSome(tag.payment_tx) \/ IsSome(tag.payment_block))
              => tag.state = STATE_PAID
         /\ tag.state = STATE_PAID =>
              /\ Cardinality(TransfersOf(id)) = 1
              /\ \A k \in TransfersOf(id) :
                   tag.payment_block = Some(sbtc_ledger[k].height)
  /\ (last.op = "fulfill" /\ last.response.ok) =>
       payment_tags[last.args.tag_id].payment_block = Some(last.height)

\* the registry holds a tag paid in the second block and a canceled tag
\* without settlement data
C20_Witness ==
  /\ \E id \in DOMAIN payment_tags :
       /\ payment_tags[id].state = STATE_PAID
       /\ payment_tags[id].payment_block = Some(StartHeight + 1)
  /\ \E id \in DOMAIN payment_tags :
       /\ payment_tags[id].state = STATE_CANCELED
       /\ payment_tags[id].payment_block = None
       /\ payment_tags[id].payment_tx = None

----------------------------------------------------------------------------
\* C21 (Settlement reference recorded): after a successful
\* fulfill-payment-tag the paid tag's record carries both a transfer
\* reference (payment-tx is present) and the settlement height (payment-block
\* is present).
C21_SettlementReferenceRecorded ==
  [][(last'.op = "fulfill" /\ last'.response.ok) =>
       /\ payment_tags'[last'.args.tag_id].state = STATE_PAID
       /\ IsSome(payment_tags'[last'.args.tag_id].payment_block)
       /\ IsSome(payment_tags'[last'.args.tag_id].payment_tx)]_vars

----------------------------------------------------------------------------
StatKeys == {"tags-created", "tags-fulfilled", "tags-canceled", "tags-expired"}

\* the counter that a successful call of the operation increments
StatOf(op) ==
  CASE op = "create" -> "tags-created"
    [] op = "fulfill" -> "tags-fulfilled"
    [] op = "cancel" -> "tags-canceled"
    [] op = "expire" -> "tags-expired"
    [] OTHER -> "none"

\* C22 (Statistics move in lock-step): every counter starts at zero and never
\* decreases; a successful create, fulfill, cancel or expire increases its own
\* counter by exactly one and leaves the other three; a failed call and
\* toggle-contract-pause change no counter.
C22_StatisticsLockStep ==
  /\ \A k \in StatKeys : get_contract_stats(Store, k) = Ok(0)
  /\ [][\A k \in StatKeys :
          LET before == StatValue(contract_stats, k)
              after == StatValue(contract_stats', k)
          IN  /\ after >= before
              /\ after = IF /\ last'.op \in {"create", "fulfill", "cancel",
                                            "expire"}
                            /\ last'.response.ok
                            /\ StatOf(last'.op) = k
                         THEN before + 1
                         ELSE before]_vars

\* the second tag has just been canceled after the first was paid
C22_Witness ==
  /\ last.op = "cancel"
  /\ last.response.ok
  /\ StatValue(contract_stats, "tags-canceled") = 1
  /\ StatValue(contract_stats, "tags-fulfilled") = 1
  /\ StatValue(contract_stats, "tags-created") = 2

----------------------------------------------------------------------------
\* the tags whose state the step changes
StateChanged ==
  {id \in DOMAIN payment_tags :
     id \in DOMAIN payment_tags' => payment_tags'[id].state # payment_tags[id].state}

\* C23 (Lifecycle is monotonic and append-only): a tag once written is never
\* deleted; the only state changes are pending -> paid by fulfill,
\* pending -> canceled by cancel and pending -> expired by expire; no tag
\* re-enters pending, and one call changes the state of at most one tag.
C23_LifecycleMonotonic ==
  [][/\ DOMAIN payment_tags \subseteq DOMAIN payment_tags'
     /\ Cardinality(StateChanged) <= 1
     /\ \A id \in StateChanged :
          /\ id = last'.args.tag_id
          /\ last'.response.ok
          /\ payment_tags[id].state = STATE_PENDING
          /\ payment_tags'[id].state # STATE_PENDING
          /\ \/ last'.op = "fulfill" /\ payment_tags'[id].state = STATE_PAID
             \/ last'.op = "cancel" /\ payment_tags'[id].state = STATE_CANCELED
             \/ last'.op = "expire" /\ payment_tags'[id].state = STATE_EXPIRED
     /\ \A id \in DOMAIN payment_tags' \ DOMAIN payment_tags :
          payment_tags'[id].state = STATE_PENDING]_vars

\* the second tag has just gone from pending to expired, the first tag is paid
C23_Witness ==
  /\ last.op = "expire"
  /\ last.response = Ok(2)
  /\ payment_tags[2].state = STATE_EXPIRED
  /\ payment_tags[1].state = STATE_PAID

----------------------------------------------------------------------------
\* the id list of p's entry of an index
IdsOf(index, p) == IndexEntry(index, p).tag_ids

\* list after is list before, or list before with one id appended
ExtendsByAtMostOne(before, after) ==
  \/ after = before
  \/ /\ Len(after) = Len(before) + 1
     /\ SubSeq(after, 1, Len(before)) = before

\* C24 (Indexes are bounded, ordered and append-only): for every party the id
\* lists of creator-index and recipient-index have at most 100 ids, strictly
\* increasing (insertion order, no duplicates); across any step each list is
\* its previous value or that value with one id appended; fulfill, cancel,
\* expire and toggle modify no index.
C24_IndexBoundedAppendOnly ==
  /\ [](\A p \in Principals :
          \A ids \in {IdsOf(creator_index, p), IdsOf(recipient_index, p)} :
            /\ Len(ids) <= MAX_TAGS_PER_USER
            /\ \A k \in 1..(Len(ids) - 1) : ids[k] < ids[k + 1])
  /\ [][/\ \A p \in Principals :
             /\ ExtendsByAtMostOne(IdsOf(creator_index, p),
                                   IdsOf(creator_index', p))
             /\ ExtendsByAtMostOne(IdsOf(recipient_index, p),
                                   IdsOf(recipient_index', p))
        /\ last'.op \in {"fulfill", "cancel", "expire", "toggle"} =>
             UNCHANGED <<creator_index, recipient_index>>]_vars

\* alice's list holds MAX-TAGS-PER-USER ids and a further create of hers has
\* just succeeded without its id being appended
C24_Witness ==
  /\ last.op = "create"
  /\ last.response.ok
  /\ last.tx_sender = "alice"
  /\ Len(IdsOf(creator_index, "alice")) = MAX_TAGS_PER_USER
  /\ last.response.val \notin
       {IdsOf(creator_index, "alice")[k] : k \in 1..MAX_TAGS_PER_USER}

----------------------------------------------------------------------------
\* C25 (Parallel count matches the list): in both indexes the stored count of
\* every entry equals the length of its stored id list, and an append to a
\* list that is already at capacity changes neither the list nor the count.
C25_CountMatchesList ==
  /\ [](/\ \A p \in DOMAIN creator_index :
             creator_index[p].count = Len(creator_index[p].tag_ids)
        /\ \A p \in DOMAIN recipient_index :
             recipient_index[p].count = Len(recipient_index[p].tag_ids))
  /\ [][(last'.op = "create" /\ last'.response.ok) =>
          /\ Len(IdsOf(creator_index, last'.tx_sender)) = IndexListMax =>
               IndexEntry(creator_index', last'.tx_sender)
                 = IndexEntry(creator_index, last'.tx_sender)
          /\ Len(IdsOf(recipient_index, last'.args.recipient)) = IndexListMax =>
               IndexEntry(recipient_index', last'.args.recipient)
                 = IndexEntry(recipient_index, last'.args.recipient)]_vars

\* bob's recipient entry holds a full list with a count to match, and one more
\* tag for bob is in the registry
C25_Witness ==
  /\ "bob" \in DOMAIN recipient_index
  /\ Len(recipient_index["bob"].tag_ids) = IndexListMax
  /\ recipient_index["bob"].count = IndexListMax
  /\ Cardinality({i \in DOMAIN payment_tags : payment_tags[i].recipient = "bob"})
       = IndexListMax + 1

----------------------------------------------------------------------------
\* the name of the event of an operation
EventOf(op) ==
  CASE op = "create" -> "payment-tag-created"
    [] op = "fulfill" -> "payment-tag-fulfilled"
    [] op = "cancel" -> "payment-tag-canceled"
    [] op = "expire" -> "payment-tag-expired"
    [] op = "toggle" -> "contract-pause-toggled"

\* C26 (One event per successful mutation): a successful create, fulfill,
\* cancel, expire or toggle prints exactly one event, named for the operation
\* and carrying the id of the tag it created or changed (toggle: the new
\* paused value); a failing call prints none.
C26_OneEventPerMutation ==
  last.op # "none" =>
    IF ~last.response.ok THEN last.printed = <<>>
    ELSE /\ Len(last.printed) = 1
         /\ last.printed[1].event = EventOf(last.op)
         /\ CASE last.op = "create" ->
                   /\ last.printed[1].tag_id = last.response.val
                   /\ last.printed[1].tag_id = tag_counter
              [] last.op \in TagOps ->
                   last.printed[1].tag_id = last.args.tag_id
              [] last.op = "toggle" ->
                   last.printed[1].paused = contract_paused

\* the creator has just canceled tag 1 and the call printed its one event
C26_Witness ==
  /\ last.op = "cancel"
  /\ last.response = Ok(1)
  /\ last.printed = <<[event |-> "payment-tag-canceled", tag_id |-> 1,
                       creator |-> last.tx_sender]>>

----------------------------------------------------------------------------
\* the paused, id, pending and expiry checks of a fulfill of tag_id all pass
\* on the store before the call
FulfillChecksPass(tag_id) ==
  /\ ~contract_paused
  /\ tag_id \in 1..tag_counter
  /\ tag_id \in DOMAIN payment_tags
  /\ payment_tags[tag_id].state = STATE_PENDING
  /\ stacks_block_height < payment_tags[tag_id].expires_at

\* C27 (Transfer only inside fulfill, once, after validation): the sBTC
\* transfer is called only by fulfill-payment-tag, at most once per call, and
\* only after the paused, id, pending and expiry checks have passed; create,
\* cancel, expire and toggle never call it, and a fulfill that fails one of
\* its checks calls it zero times.
C27_TransferOnlyInFulfill ==
  [][/\ Len(last'.calls) <= 1
     /\ last'.op # "fulfill" => last'.calls = <<>>
     /\ last'.op = "fulfill" =>
          IF FulfillChecksPass(last'.args.tag_id)
          THEN /\ Len(last'.calls) = 1
               /\ last'.calls[1].args
                    = [amount |-> payment_tags[last'.args.tag_id].amount,
                       sender |-> last'.tx_sender,
                       recipient |-> payment_tags[last'.args.tag_id].recipient]
          ELSE last'.calls = <<>> /\ ~last'.response.ok]_vars

\* the recipient itself has just paid a tag with one transfer to itself, the
\* second transfer of the run
C27_Witness ==
  /\ last.op = "fulfill"
  /\ last.response.ok
  /\ Len(last.calls) = 1
  /\ last.tx_sender = payment_tags[last.args.tag_id].recipient
  /\ last.calls[1].args.sender = last.calls[1].args.recipient
  /\ Len(sbtc_ledger) = 2

----------------------------------------------------------------------------
\* C28 (Failed transitions commit nothing): a fulfill-payment-tag,
\* cancel-payment-tag, expire-payment-tag or toggle-contract-pause call that
\* returns an error leaves the registry, both indexes, the statistics,
\* tag-counter and the pause flag as they were before the call.
C28_FailedTransitionsCommitNothing ==
  [][(last'.op \in TagOps \cup {"toggle"} /\ ~last'.response.ok) =>
       /\ StoreUnchanged
       /\ sbtc_ledger' = sbtc_ledger
       /\ last'.printed = <<>>]_vars

\* on a paused contract with two tags, one of them paid, a toggle by someone
\* other than the deployer has just been refused
C28_Witness ==
  /\ last.op = "toggle"
  /\ last.response = Err(ERR_UNAUTHORIZED)
  /\ contract_paused
  /\ tag_counter = 2
  /\ \E i \in DOMAIN payment_tags : payment_tags[i].state = STATE_PAID

----------------------------------------------------------------------------
\* ids that were never assigned, among those tried
UnknownIds == {id \in 0..(tag_counter + 2) : ~(id \in 1..tag_counter)}

\* C29 (Unknown ids are NotFound): for an id that was never assigned (0, or
\* above tag-counter) fulfill on an unpaused contract, cancel, expire,
\* get-payment-tag and can-expire-tag return ERR-NOT-FOUND and change nothing;
\* no fulfill, cancel or expire call ever returns ERR-INVALID-AMOUNT.
C29_UnknownIdsNotFound ==
  /\ [](/\ \A id \in UnknownIds :
             /\ get_payment_tag(Store, id) = Err(ERR_NOT_FOUND)
             /\ can_expire_tag(Store, stacks_block_height, id)
                  = Err(ERR_NOT_FOUND)
        /\ last.op \in TagOps => last.response # Err(ERR_INVALID_AMOUNT))
  /\ [][(/\ last'.op \in TagOps
         /\ last'.args.tag_id \in UnknownIds
         /\ last'.op = "fulfill" => ~contract_paused)
        => /\ last'.response = Err(ERR_NOT_FOUND)
           /\ StoreUnchanged
           /\ last'.calls = <<>>]_vars

\* with two tags in the registry a cancel of id 0 has just been answered with
\* ERR-NOT-FOUND
C29_Witness ==
  /\ last.op = "cancel"
  /\ last.args.tag_id = 0
  /\ last.response = Err(ERR_NOT_FOUND)
  /\ tag_counter = 2

----------------------------------------------------------------------------
\* the id lists get-multiple-tags is tried on: every list of at most
\* MaxBatchLen ids, assigned or not
BatchInputs == UNION {[1..n -> CallIds] : n \in 0..MaxBatchLen}

\* C30 (Batch read never fails as a whole): get-multiple-tags on a list of ids
\* returns ok with a list of the same length and order, whose i-th element is
\* the stored tag of the i-th id if there is one and none otherwise.
C30_BatchReadTotal ==
  \A tag_ids \in BatchInputs :
    LET r == get_multiple_tags(Store, tag_ids) IN
      /\ r.ok
      /\ Len(r.val) = Len(tag_ids)
      /\ \A i \in 1..Len(tag_ids) :
           r.val[i] = IF tag_ids[i] \in DOMAIN payment_tags
                      THEN Some(payment_tags[tag_ids[i]])
                      ELSE None

\* two different tags are stored and the batch read of the ids 2, 0, 1 gives
\* the second tag, none and the first tag
C30_Witness ==
  /\ tag_counter = 2
  /\ payment_tags[1] # payment_tags[2]
  /\ get_multiple_tags(Store, <<2, 0, 1>>)
       = Ok(<<Some(payment_tags[2]), None, Some(payment_tags[1])>>)

----------------------------------------------------------------------------
\* C31 (Listing and stats reads never fail): get-creator-tags and
\* get-recipient-tags return ok with the party's stored id list, or the empty
\* list for a party that never appeared; get-contract-stats returns the stored
\* counter, or 0 for a key never incremented; get-contract-info reports
\* total-tags = tag-counter and paused = the pause flag.
C31_ReadsNeverFail ==
  /\ \A p \in Principals \cup {"carol"} :
       /\ get_creator_tags(Store, p)
            = Ok(IF \E i \in DOMAIN payment_tags : payment_tags[i].creator = p
                 THEN creator_index[p].tag_ids ELSE <<>>)
       /\ get_recipient_tags(Store, p)
            = Ok(IF \E i \in DOMAIN payment_tags : payment_tags[i].recipient = p
                 THEN recipient_index[p].tag_ids ELSE <<>>)
  /\ \A k \in StatKeys \cup {"tags-unknown"} :
       get_contract_stats(Store, k)
         = Ok(IF k \in DOMAIN contract_stats THEN contract_stats[k] ELSE 0)
  /\ get_contract_info(Store).ok
  /\ get_contract_info(Store).val.total_tags = tag_counter
  /\ get_contract_info(Store).val.paused = contract_paused

\* alice's list holds two ids, bob has created nothing, one tag was canceled
\* and none was paid, and the contract is paused
C31_Witness ==
  /\ get_creator_tags(Store, "alice") = Ok(<<1, 2>>)
  /\ get_creator_tags(Store, "bob") = Ok(<<>>)
  /\ get_recipient_tags(Store, "bob") = Ok(<<1, 2>>)
  /\ get_contract_stats(Store, "tags-canceled") = Ok(1)
  /\ get_contract_stats(Store, "tags-fulfilled") = Ok(0)
  /\ get_contract_info(Store).val.paused

----------------------------------------------------------------------------
\* the number of tags of the registry in a state
TagsIn(state) ==
  Cardinality({i \in DOMAIN payment_tags : payment_tags[i].state = state})

\* C32 (Counter conservation): tags-created equals tag-counter and the number
\* of tags in the registry; tags-fulfilled, tags-canceled and tags-expired
\* equal the numbers of paid, canceled and expired tags; hence tags-created is
\* the number of pending tags plus the other three counters.
C32_CounterConservation ==
  /\ StatValue(contract_stats, "tags-created") = tag_counter
  /\ StatValue(contract_stats, "tags-created") = Cardinality(DOMAIN payment_tags)
  /\ StatValue(contract_stats, "tags-fulfilled") = TagsIn(STATE_PAID)
  /\ StatValue(contract_stats, "tags-canceled") = TagsIn(STATE_CANCELED)
  /\ StatValue(contract_stats, "tags-expired") = TagsIn(STATE_EXPIRED)
  /\ StatValue(contract_stats, "tags-created")
       = TagsIn(STATE_PENDING) + StatValue(contract_stats, "tags-fulfilled")
         + StatValue(contract_stats, "tags-canceled")
         + StatValue(contract_stats, "tags-expired")

\* of two tags created one is expired and one is still pending
C32_Witness ==
  /\ StatValue(contract_stats, "tags-created") = 2
  /\ StatValue(contract_stats, "tags-expired") = 1
  /\ TagsIn(STATE_EXPIRED) = 1
  /\ TagsIn(STATE_PENDING) = 1

----------------------------------------------------------------------------
\* C33 (can-expire-tag agrees with expire-payment-tag): for every id and
\* caller, can-expire-tag returns ok true exactly when expire-payment-tag at
\* the same height would succeed, ok false exactly when it would fail with
\* not-pending or not-yet-expired, and not-found exactly when it would.
C33_CanExpireAgrees ==
  \A tag_id \in CallIds :
    LET can == can_expire_tag(Store, stacks_block_height, tag_id) IN
      \A tx_sender \in Principals :
        LET would == expire_checks(Store, stacks_block_height, tag_id)
            response == expire_payment_tag(Store, tx_sender,
                                           stacks_block_height, tag_id).response
        IN  /\ response = IF would = 0 THEN Ok(tag_id) ELSE Err(would)
            /\ can = Ok(TRUE) <=> would = 0
            /\ can = Ok(FALSE) <=> would \in {ERR_NOT_PENDING, ERR_EXPIRED}
            /\ can = Err(ERR_NOT_FOUND) <=> would = ERR_NOT_FOUND

\* at one height can-expire-tag says true for tag 1, false for the pending
\* tag 2 that has not expired yet, and not-found for id 3
C33_Witness ==
  /\ tag_counter = 2
  /\ can_expire_tag(Store, stacks_block_height, 1) = Ok(TRUE)
  /\ can_expire_tag(Store, stacks_block_height, 2) = Ok(FALSE)
  /\ payment_tags[2].state = STATE_PENDING
  /\ can_expire_tag(Store, stacks_block_height, 3) = Err(ERR_NOT_FOUND)

----------------------------------------------------------------------------
\* tag id is pending at a height at or after its expiry
PendingPastExpiry(id) ==
  /\ id \in DOMAIN payment_tags
  /\ payment_tags[id].state = STATE_PENDING
  /\ stacks_block_height >= payment_tags[id].expires_at

\* tag id can no longer be paid: it is pending at or after its expiry, or it is
\* cancelled or expired (a paid tag is in none of these cases)
Unpayable(id) ==
  \/ PendingPastExpiry(id)
  \/ /\ id \in DOMAIN payment_tags
     /\ payment_tags[id].state \in {STATE_EXPIRED, STATE_CANCELED}

\* C34 (Fulfill and expire are mutually exclusive in time): for a pending tag
\* at any height exactly one of the time guards of fulfill (height below
\* expires-at) and expire (height at or above it) holds, so the two are never
\* both enabled; the height never decreases, and a tag that was pending at a
\* height at or after its expires-at stays unpayable in every step, hence is
\* not paid in any later state.
C34_FulfillExpireExclusive ==
  /\ [](\A id \in DOMAIN payment_tags :
          payment_tags[id].state = STATE_PENDING =>
            /\ (fulfill_checks(Unpaused, stacks_block_height, id) = 0)
                 <=> (expire_checks(Store, stacks_block_height, id) # 0)
            /\ ~(/\ fulfill_checks(Store, stacks_block_height, id) = 0
                 /\ expire_checks(Store, stacks_block_height, id) = 0))
  /\ [][stacks_block_height' >= stacks_block_height]_vars
  /\ [][\A id \in DOMAIN payment_tags : Unpayable(id) => Unpayable(id)']_vars

\* tag 1 is pending at its expiry height, where fulfill answers ERR-EXPIRED
\* and expire would succeed
C34_Witness ==
  /\ PendingPastExpiry(1)
  /\ ~contract_paused
  /\ last.op = "fulfill"
  /\ last.args.tag_id = 1
  /\ last.response = Err(ERR_EXPIRED)
  /\ can_expire_tag(Store, stacks_block_height, 1) = Ok(TRUE)

\* tag id has left the pending state
Retired(id) ==
  /\ id \in DOMAIN payment_tags
  /\ payment_tags[id].state \in {STATE_PAID, STATE_EXPIRED, STATE_CANCELED}

\* C35 (Every tag can be retired): when blocks keep being mined and expire is
\* called on every tag on which it would succeed, every created tag eventually
\* leaves the pending state, in every such run: also in those where the
\* contract stays paused and in those where the creator never cancels.
C35_EveryTagRetired ==
  \A id \in 1..MaxNewTags : [](id \in DOMAIN payment_tags => <>Retired(id))

\* tag 1 was expired by someone other than its creator while the contract is
\* paused
C35_Witness ==
  /\ contract_paused
  /\ last.op = "expire"
  /\ last.args.tag_id = 1
  /\ last.response.ok
  /\ last.tx_sender # payment_tags[1].creator
  /\ payment_tags[1].state = STATE_EXPIRED

\* the state a successful call of the operation leaves a tag in
TerminalOf(op) ==
  CASE op = "fulfill" -> STATE_PAID
    [] op = "cancel" -> STATE_CANCELED
    [] op = "expire" -> STATE_EXPIRED
    [] OTHER -> STATE_PENDING

\* every counter but the one named key is as before, and no other key appears
OtherStatsUnchanged(key) ==
  /\ DOMAIN contract_stats' \subseteq DOMAIN contract_stats \cup {key}
  /\ \A k \in DOMAIN contract_stats \ {key} :
       k \in DOMAIN contract_stats' /\ contract_stats'[k] = contract_stats[k]

\* C36 (Terminal transitions touch only their own tag): a successful fulfill,
\* cancel or expire on tag i changes the state of tag i (fulfill also its
\* payment-block) and the counter of the operation, and nothing else: every
\* other field of tag i, every other tag, both indexes, tag-counter and the
\* pause flag are as before.  A successful toggle changes the pause flag only.
C36_TerminalFrame ==
  [][/\ (last'.op \in TagOps /\ last'.response.ok) =>
          LET i == last'.args.tag_id
              before == payment_tags[i]
              after == IF last'.op = "fulfill"
                       THEN [before EXCEPT !.state = STATE_PAID,
                               !.payment_block = Some(stacks_block_height)]
                       ELSE [before EXCEPT !.state = TerminalOf(last'.op)]
          IN  /\ i \in DOMAIN payment_tags
              /\ DOMAIN payment_tags' = DOMAIN payment_tags
              /\ payment_tags'[i] = after
              /\ \A j \in DOMAIN payment_tags \ {i} :
                   payment_tags'[j] = payment_tags[j]
              /\ OtherStatsUnchanged(StatOf(last'.op))
              /\ get_contract_stats(Store', StatOf(last'.op)).val
                   = get_contract_stats(Store, StatOf(last'.op)).val + 1
              /\ UNCHANGED <<creator_index, recipient_index, tag_counter,
                             contract_paused>>
     /\ (last'.op = "toggle" /\ last'.response.ok) =>
          /\ contract_paused' = ~contract_paused
          /\ UNCHANGED <<payment_tags, creator_index, recipient_index,
                         contract_stats, tag_counter>>]_vars

\* tag 1 has just been paid while tag 2 is pending
C36_Witness ==
  /\ last.op = "fulfill"
  /\ last.response.ok
  /\ last.args.tag_id = 1
  /\ 2 \in DOMAIN payment_tags
  /\ payment_tags[1].state = STATE_PAID
  /\ payment_tags[2].state = STATE_PENDING

\* C37 (Terminal states are consistent with the clock): a paid tag has a
\* payment block p with created-at <= p < expires-at, and its transfer was
\* made at that height; a tag becomes expired only in a call made at a height
\* at or after its expires-at, so an expired tag is never seen before that
\* height; no transfer for a tag is made at or after its expiry.
C37_TerminalStatesAndClock ==
  /\ [](\A id \in DOMAIN payment_tags :
          LET tag == payment_tags[id] IN
          /\ tag.state = STATE_PAID =>
               /\ IsSome(tag.payment_block)
               /\ tag.created_at <= Unwrap(tag.payment_block)
               /\ Unwrap(tag.payment_block) < tag.expires_at
               /\ Unwrap(tag.payment_block) <= stacks_block_height
          /\ tag.state = STATE_EXPIRED => stacks_block_height >= tag.expires_at
          /\ \A k \in TransfersOf(id) : sbtc_ledger[k].height < tag.expires_at)
  /\ [][\A id \in DOMAIN payment_tags :
          (payment_tags[id].state # STATE_EXPIRED
             /\ payment_tags'[id].state = STATE_EXPIRED) =>
            /\ last'.op = "expire"
            /\ last'.args.tag_id = id
            /\ last'.height = stacks_block_height
            /\ last'.height >= payment_tags[id].expires_at]_vars

\* tag 1 was paid in the block of its creation and tag 2 was expired after
\* its expiry
C37_Witness ==
  /\ 2 \in DOMAIN payment_tags
  /\ payment_tags[1].state = STATE_PAID
  /\ payment_tags[1].payment_block = Some(payment_tags[1].created_at)
  /\ payment_tags[2].state = STATE_EXPIRED
  /\ last.op = "expire"
  /\ last.response.ok
  /\ last.height >= payment_tags[2].expires_at

\* the positions of the history of the retryWithBackoff call with an event ev
EventsAt(ev) == {k \in 1..Len(retry.trace) : retry.trace[k].ev = ev}

\* C38 (Retry with exponential backoff): fn is called at most maxAttempts
\* times, one call after the other; the first call that resolves ends the
\* function, which returns its value; after the rejected attempt k with
\* k < maxAttempts - 1 the delay baseDelay * 2^k is awaited before the next
\* call, and nothing follows the rejection of the last attempt; when every
\* call has rejected the error of the last one is thrown (and when no call was
\* made, the error "Max retry attempts reached"); a settled call takes no
\* further step, and every call settles.
C38_RetryWithBackoff ==
  /\ [](LET t == retry.trace
            n == Len(retry.trace)
        IN  /\ Cardinality(EventsAt("call")) <= retry.maxAttempts
            /\ \A k \in EventsAt("call") :
                 /\ t[k].n = Cardinality({j \in EventsAt("call") : j < k})
                 /\ IF k = n THEN retry.pc = "fn"
                    ELSE t[k + 1].ev \in {"resolved", "rejected"}
                           /\ t[k + 1].n = t[k].n
                 /\ k > 1 => t[k - 1].ev \in {"rejected", "wait"}
            /\ \A k \in EventsAt("resolved") :
                 /\ k = n
                 /\ retry.pc = "done"
                 /\ retry.outcome = Returned(t[k].value)
            /\ \A k \in EventsAt("rejected") :
                 IF t[k].n < retry.maxAttempts - 1
                 THEN k < n /\ t[k + 1] = Event("wait", retry.baseDelay * 2^(t[k].n), "")
                 ELSE k = n
            /\ \A k \in EventsAt("wait") :
                 /\ t[k - 1].ev = "rejected"
                 /\ IF k = n THEN retry.pc \in {"delay", "for"}
                    ELSE t[k + 1] = Event("call", t[k - 1].n + 1, "")
            /\ retry.outcome.kind = "returned" => EventsAt("resolved") # {}
            /\ retry.outcome.kind = "thrown" =>
                 /\ retry.pc = "done"
                 /\ EventsAt("resolved") = {}
                 /\ Cardinality(EventsAt("rejected")) = retry.maxAttempts
                 /\ retry.outcome.value =
                      IF n = 0 THEN MAX_RETRY_ERROR ELSE t[n].value
                 /\ n > 0 => t[n].ev = "rejected"
            /\ retry.pc = "done" <=> retry.outcome # Pending)
  /\ [][retry.pc # "done"]_vars
  /\ <>(retry.pc = "done")

\* three attempts have failed, with delays of 250 and 500 between them, and
\* the error of the third is thrown
C38_Witness ==
  /\ retry.maxAttempts = 3
  /\ retry.baseDelay = 250
  /\ retry.outcome = Thrown("e2")
  /\ Len(retry.trace) = 8
  /\ retry.trace[3] = Event("wait", 250, "")
  /\ retry.trace[6] = Event("wait", 500, "")
  /\ retry.trace[5].value = "e1"
  /\ retry.trace[8] = Event("rejected", 2, "e2")

\* the respondSessionRequest calls made for event req
CallsFor(req) == {k \in 1..Len(wallet.calls) : wallet.calls[k].req = req}

\* event req has arrived and a response to it has been sent
Answered(req) ==
  /\ req <= Len(wallet.events)
  /\ \E k \in CallsFor(req) : wallet.calls[k].status = "resolved"

\* C39 (Every session request is answered exactly once): for every
\* session_request event exactly one respondSessionRequest call is made, with
\* the topic and the request id of the event and with the handler's result,
\* the 'Unsupported method' error or the error text of a handler that threw;
\* and every event is eventually answered.
C39_AnsweredExactlyOnce ==
  /\ [](\A req \in 1..Len(wallet.events) :
          /\ Cardinality(CallsFor(req)) = 1
          /\ \A k \in CallsFor(req) :
               /\ wallet.calls[k].topic = wallet.events[req].topic
               /\ wallet.calls[k].requestId = wallet.events[req].id
               /\ wallet.calls[k].result =
                    FirstResult(wallet.events[req].method,
                                wallet.events[req].params))
  /\ \A req \in 1..MaxRequests :
       [](req <= Len(wallet.events) => <>Answered(req))

====
